---- MODULE Spec2Model ----
(***************************************************************************)
(* Model of the cq query language: shortcut expansion                      *)
(* (src/query/shortcuts.rs), path and filter parsing (src/query/path.rs)   *)
(* and path execution with filter evaluation (src/query/engine.rs).        *)
(*                                                                         *)
(* Representation.  A Rust string is a sequence of one-character strings,  *)
(* <<"a", ".", "b">> for "a.b".  Positions are 1-based; a search that      *)
(* finds nothing gives 0 where Rust gives None.  A Result is a record      *)
(* with tag "Ok" or "Err"; a Rust panic (an out-of-range or inverted       *)
(* slice) is the record Panic.                                             *)
(***************************************************************************)
EXTENDS Integers, Sequences, FiniteSets, TLC

VARIABLES pc, query, tree, expanded, path, result, content, filter, segments, det, fan, candidate, matched,
          value_text, filter_value, part_text, parsed_segment, serialized, reparsed, run_result, exit_status, stack, ret,
          first, second, resolved

vars == <<pc, query, tree, expanded, path, result, content, filter, segments, det, fan, candidate, matched,
          value_text, filter_value, part_text, parsed_segment, serialized, reparsed, run_result, exit_status, stack, ret,
          first, second, resolved>>

\* Placeholder for a variable that holds nothing yet.
None == [tag |-> "None"]

(***************************************************************************)
(* Strings                                                                 *)
(***************************************************************************)

\* The sequences over alphabet A of length at most n.
StringsUpTo(A, n) == UNION {[1..k -> A] : k \in 0..n}

\* &s[i..] for a 0-based i given as the count of characters dropped.
Drop(s, k) == SubSeq(s, k + 1, Len(s))

\* &s[..k]
Take(s, k) == SubSeq(s, 1, k)

\* str::starts_with(pat)
StartsWith(s, pat) == Len(s) >= Len(pat) /\ Take(s, Len(pat)) = pat

\* str::ends_with(pat)
EndsWith(s, pat) == Len(s) >= Len(pat) /\ Drop(s, Len(s) - Len(pat)) = pat

\* str::find(pat): the 1-based position of the first occurrence, 0 for None.
Find(s, pat) ==
    LET hits == {i \in 1..(Len(s) - Len(pat) + 1) : SubSeq(s, i, i + Len(pat) - 1) = pat}
    IN IF hits = {} THEN 0 ELSE CHOOSE i \in hits : \A j \in hits : i <= j

\* str::contains(pat)
Contains(s, pat) == Find(s, pat) # 0

\* str::split(c): the pieces between the occurrences of the character c;
\* a string without c (the empty string too) gives one piece.
RECURSIVE Split(_, _)
Split(s, c) ==
    LET p == Find(s, <<c>>)
    IN IF p = 0 THEN <<s>> ELSE <<Take(s, p - 1)>> \o Split(Drop(s, p), c)

\* char::is_whitespace restricted to ASCII blanks.
IsWhitespace(c) == c \in {" ", "\t", "\n", "\r"}

RECURSIVE TrimStart(_)
TrimStart(s) == IF s # <<>> /\ IsWhitespace(Head(s)) THEN TrimStart(Tail(s)) ELSE s

RECURSIVE TrimEnd(_)
TrimEnd(s) == IF s # <<>> /\ IsWhitespace(s[Len(s)]) THEN TrimEnd(Take(s, Len(s) - 1)) ELSE s

\* str::trim
Trim(s) == TrimEnd(TrimStart(s))

Digits == {"0", "1", "2", "3", "4", "5", "6", "7", "8", "9"}

DigitValue(c) ==
    CASE c = "0" -> 0 [] c = "1" -> 1 [] c = "2" -> 2 [] c = "3" -> 3 [] c = "4" -> 4
      [] c = "5" -> 5 [] c = "6" -> 6 [] c = "7" -> 7 [] c = "8" -> 8 [] c = "9" -> 9

AllDigits(s) == \A i \in 1..Len(s) : s[i] \in Digits

RECURSIVE DigitsValue(_)
DigitsValue(s) == IF s = <<>> THEN 0 ELSE 10 * DigitsValue(Take(s, Len(s) - 1)) + DigitValue(s[Len(s)])

RECURSIVE StripLeadingZeros(_)
StripLeadingZeros(s) == IF s # <<>> /\ Head(s) = "0" THEN StripLeadingZeros(Tail(s)) ELSE s

\* The decimal numeral of usize::MAX on a 64-bit target.
UsizeMaxDigits == <<"1","8","4","4","6","7","4","4","0","7","3","7","0","9","5","5","1","6","1","5">>

\* Lexicographic s <= t for digit strings of the same length.
RECURSIVE DigitsLeq(_, _)
DigitsLeq(s, t) ==
    IF s = <<>> THEN TRUE
    ELSE IF DigitValue(Head(s)) < DigitValue(Head(t)) THEN TRUE
    ELSE IF DigitValue(Head(s)) > DigitValue(Head(t)) THEN FALSE
    ELSE DigitsLeq(Tail(s), Tail(t))

FitsUsize(ds) ==
    LET sig == StripLeadingZeros(ds)
    IN \/ Len(sig) < Len(UsizeMaxDigits)
       \/ Len(sig) = Len(UsizeMaxDigits) /\ DigitsLeq(sig, UsizeMaxDigits)

\* s.parse::<usize>(): an optional '+', then one or more decimal digits whose
\* value fits 64 bits.  No '-' (not even "-0"), no blanks.
ParseUsize(s) ==
    LET ds == IF s # <<>> /\ Head(s) = "+" THEN Tail(s) ELSE s
    IN IF ds # <<>> /\ AllDigits(ds) /\ FitsUsize(ds)
       THEN [tag |-> "Ok", val |-> DigitsValue(ds)]
       ELSE [tag |-> "Err"]

(***************************************************************************)
(* 64-bit floats, as far as the filter grammar and evaluator use them.     *)
(* A finite float is mant * 10^exp with mant not divisible by 10 (0 is     *)
(* mant 0, exp 0); the numerals of the model are short, so the rounding    *)
(* and the overflow of the binary format are out of reach.                 *)
(***************************************************************************)
F64NaN == [cls |-> "nan"]

F64Inf(negative) == [cls |-> "inf", neg |-> negative]

RECURSIVE F64Fin(_, _)
F64Fin(m, e) ==
    IF m = 0 THEN [cls |-> "fin", mant |-> 0, exp |-> 0]
    ELSE IF m % 10 = 0 THEN F64Fin(m \div 10, e + 1)
    ELSE [cls |-> "fin", mant |-> m, exp |-> e]

RECURSIVE Pow10(_)
Pow10(n) == IF n = 0 THEN 1 ELSE 10 * Pow10(n - 1)

\* ASCII lower-casing of the letters that spell inf, infinity and nan.
Lower(c) ==
    CASE c = "I" -> "i" [] c = "N" -> "n" [] c = "F" -> "f" [] c = "A" -> "a"
      [] c = "T" -> "t" [] c = "Y" -> "y" [] c = "E" -> "e" [] OTHER -> c

LowerStr(s) == [i \in 1..Len(s) |-> Lower(s[i])]

\* The exponent part of a decimal literal: an optional sign and digits.
ParseExponent(s) ==
    LET neg == s # <<>> /\ Head(s) = "-"
        ds == IF s # <<>> /\ Head(s) \in {"+", "-"} THEN Tail(s) ELSE s
    IN IF ds # <<>> /\ AllDigits(ds)
       THEN [tag |-> "Ok", val |-> IF neg THEN 0 - DigitsValue(ds) ELSE DigitsValue(ds)]
       ELSE [tag |-> "Err"]

\* s.parse::<f64>(): Sign? ('inf' | 'infinity' | 'nan' | Number), the words in
\* any case; Number is Digit+ | Digit+ '.' Digit* | Digit* '.' Digit+, then an
\* optional exponent 'e' Sign? Digit+.
ParseF64(s) ==
    LET neg  == s # <<>> /\ Head(s) = "-"
        body == IF s # <<>> /\ Head(s) \in {"+", "-"} THEN Tail(s) ELSE s
        low  == LowerStr(body)
        epos == Find(low, <<"e">>)
        mstr == IF epos = 0 THEN body ELSE Take(body, epos - 1)
        estr == IF epos = 0 THEN <<>> ELSE Drop(body, epos)
        dpos == Find(mstr, <<".">>)
        ipart == IF dpos = 0 THEN mstr ELSE Take(mstr, dpos - 1)
        fpart == IF dpos = 0 THEN <<>> ELSE Drop(mstr, dpos)
        ex   == IF epos = 0 THEN [tag |-> "Ok", val |-> 0] ELSE ParseExponent(estr)
        m    == DigitsValue(ipart \o fpart)
    IN IF low \in {<<"i","n","f">>, <<"i","n","f","i","n","i","t","y">>}
         THEN [tag |-> "Ok", val |-> F64Inf(neg)]
       ELSE IF low = <<"n","a","n">>
         THEN [tag |-> "Ok", val |-> F64NaN]
       ELSE IF /\ AllDigits(ipart) /\ AllDigits(fpart)
               /\ Len(ipart) + Len(fpart) > 0
               /\ ex.tag = "Ok"
         THEN [tag |-> "Ok",
               val |-> F64Fin(IF neg THEN 0 - m ELSE m, ex.val - Len(fpart))]
       ELSE [tag |-> "Err"]

\* a < b on floats; every comparison with NaN is false.
F64Lt(a, b) ==
    IF a.cls = "nan" \/ b.cls = "nan" THEN FALSE
    ELSE IF a.cls = "inf" THEN a.neg /\ ~(b.cls = "inf" /\ b.neg)
    ELSE IF b.cls = "inf" THEN ~b.neg
    ELSE LET e == IF a.exp < b.exp THEN a.exp ELSE b.exp
         IN a.mant * Pow10(a.exp - e) < b.mant * Pow10(b.exp - e)

F64Eq(a, b) == a.cls # "nan" /\ b.cls # "nan" /\ a = b

F64Gt(a, b) == F64Lt(b, a)

F64Le(a, b) == F64Lt(a, b) \/ F64Eq(a, b)

F64Ge(a, b) == F64Lt(b, a) \/ F64Eq(a, b)

\* (a - b).abs() < f64::EPSILON.  The difference of two of the model's short
\* decimals is 0 or far above EPSILON; inf - inf and anything with NaN is NaN,
\* for which the comparison is false.
F64AbsDiffLtEps(a, b) == a.cls = "fin" /\ b.cls = "fin" /\ a = b

\* (a - b).abs() >= f64::EPSILON
F64AbsDiffGeEps(a, b) ==
    /\ a.cls # "nan" /\ b.cls # "nan"
    /\ ~(a.cls = "inf" /\ b.cls = "inf" /\ a.neg = b.neg)
    /\ a # b

(***************************************************************************)
(* src/query/path.rs                                                       *)
(***************************************************************************)
Ok(v) == [tag |-> "Ok", val |-> v]

InvalidQuery(m) == [tag |-> "Err", kind |-> "InvalidQuery", msg |-> m]

FieldNotFound(n) == [tag |-> "Err", kind |-> "FieldNotFound", name |-> n]

IndexOutOfBounds(i) == [tag |-> "Err", kind |-> "IndexOutOfBounds", idx |-> i]

\* A Rust panic: the process aborts, no Result is returned.
Panic == [tag |-> "Panic"]

Field(n) == [seg |-> "Field", name |-> n]

Index(i) == [seg |-> "Index", idx |-> i]

Wildcard == [seg |-> "Wildcard"]

Filter(e) == [seg |-> "Filter", expr |-> e]

FilterExpr(f, o, v) == [field |-> f, op |-> o, value |-> v]

NumberValue(n) == [fv |-> "Number", num |-> n]

StringValue(s) == [fv |-> "String", str |-> s]

NullValue == [fv |-> "Null"]

\* QueryPath::parse_segment
parse_segment(s) ==
    IF s = <<>> THEN InvalidQuery("Empty path segment (consecutive dots?)")
    ELSE IF s = <<"*">> THEN Ok(Wildcard)
    ELSE IF ParseUsize(s).tag = "Ok" THEN Ok(Index(ParseUsize(s).val))
    ELSE Ok(Field(s))

\* parse_filter_value that keeps the quotes of a quoted value.
parse_filter_value_KeepQuotes(str) ==
    LET s == Trim(str)
    IN IF s = <<"n","u","l","l">> THEN Ok(NullValue)
       ELSE IF ParseF64(s).tag = "Ok" THEN Ok(NumberValue(ParseF64(s).val))
       ELSE Ok(StringValue(s))

\* QueryPath::parse_filter_value.  &s[1..s.len() - 1] panics when the trimmed
\* text is one quote character: it starts and ends with the quote, and the
\* slice is 1..0.
parse_filter_value(str) ==
    LET s == Trim(str)
    IN IF s = <<"n","u","l","l">> THEN Ok(NullValue)
       ELSE IF \/ StartsWith(s, <<"\"">>) /\ EndsWith(s, <<"\"">>)
               \/ StartsWith(s, <<"'">>) /\ EndsWith(s, <<"'">>)
         THEN IF 1 > Len(s) - 1 THEN Panic
              ELSE Ok(StringValue(SubSeq(s, 2, Len(s) - 1)))
       ELSE IF ParseF64(s).tag = "Ok" THEN Ok(NumberValue(ParseF64(s).val))
       ELSE Ok(StringValue(s))

\* The operator table of parse_filter, in its scan order.
ops == << [tok |-> <<">","=">>, op |-> "Gte"],
          [tok |-> <<"<","=">>, op |-> "Lte"],
          [tok |-> <<"!","=">>, op |-> "Ne"],
          [tok |-> <<"=","=">>, op |-> "Eq"],
          [tok |-> <<">">>,     op |-> "Gt"],
          [tok |-> <<"<">>,     op |-> "Lt"],
          [tok |-> <<"~">>,     op |-> "Contains"] >>

\* filter_at without the check of the field: an empty field is accepted.
filter_at_NoFieldCheck(s, k, pos) ==
    LET field == Trim(Take(s, pos - 1))
        value_str == Trim(Drop(s, pos - 1 + Len(ops[k].tok)))
        value == parse_filter_value(value_str)
    IN IF value.tag # "Ok" THEN value
       ELSE Ok(FilterExpr(field, ops[k].op, value.val))

\* The body of the if-let of parse_filter for table entry k found at position
\* pos of s: the field is the trimmed text before the token, the value is
\* parsed from the trimmed text after it, and an empty field is an error.
filter_at(s, k, pos) ==
    LET field == Trim(Take(s, pos - 1))
        value_str == Trim(Drop(s, pos - 1 + Len(ops[k].tok)))
        value == parse_filter_value(value_str)
    IN IF field = <<>> THEN InvalidQuery("Filter field is empty")
       ELSE IF value.tag # "Ok" THEN value
       ELSE Ok(FilterExpr(field, ops[k].op, value.val))

\* The for loop of parse_filter from table entry k on: the first entry whose
\* token occurs in s decides the outcome.
RECURSIVE parse_filter_from(_, _)
parse_filter_from(s, k) ==
    IF k > Len(ops)
    THEN [tag |-> "Err", kind |-> "InvalidQuery", msg |-> "Invalid filter syntax", arg |-> s]
    ELSE IF Find(s, ops[k].tok) = 0 THEN parse_filter_from(s, k + 1)
    ELSE filter_at(s, k, Find(s, ops[k].tok))

\* QueryPath::parse_filter
parse_filter(str) == parse_filter_from(Trim(str), 1)

\* The segments pushed for the dot-separated parts of the text before a '[':
\* empty parts are skipped.
RECURSIVE parse_field_part(_)
parse_field_part(parts) ==
    IF parts = <<>> THEN Ok(<<>>)
    ELSE LET rest == parse_field_part(Tail(parts))
         IN IF Head(parts) = <<>> THEN rest
            ELSE IF parse_segment(Head(parts)).tag # "Ok" THEN parse_segment(Head(parts))
            ELSE IF rest.tag # "Ok" THEN rest
            ELSE Ok(<<parse_segment(Head(parts)).val>> \o rest.val)

\* The segments pushed by the else branch of parse (no '[' left): an empty
\* part is an error unless it is the last part.
RECURSIVE parse_dot_parts(_)
parse_dot_parts(parts) ==
    IF parts = <<>> THEN Ok(<<>>)
    ELSE IF Head(parts) = <<>>
      THEN IF Len(parts) > 1
           THEN InvalidQuery("Empty path segment (consecutive dots?)")
           ELSE Ok(<<>>)
    ELSE IF parse_segment(Head(parts)).tag # "Ok" THEN parse_segment(Head(parts))
    ELSE LET rest == parse_dot_parts(Tail(parts))
         IN IF rest.tag # "Ok" THEN rest
            ELSE Ok(<<parse_segment(Head(parts)).val>> \o rest.val)

\* The while loop of parse, from the text still to read and the segments
\* pushed so far.  &remaining[bracket_start + 1..bracket_end] panics when the
\* first ']' lies before the first '['.
RECURSIVE parse_loop(_, _)
parse_loop(remaining, segs) ==
    IF remaining = <<>> THEN Ok(segs)
    ELSE LET bracket_start == Find(remaining, <<"[">>)
             bracket_end   == Find(remaining, <<"]">>)
         IN IF bracket_start # 0
            THEN LET before == parse_field_part(
                                 IF bracket_start = 1 THEN <<>>
                                 ELSE Split(Take(remaining, bracket_start - 1), "."))
                 IN IF before.tag # "Ok" THEN before
                    ELSE IF bracket_end = 0 THEN InvalidQuery("Unclosed bracket in filter")
                    ELSE IF bracket_end < bracket_start THEN Panic
                    ELSE LET f == parse_filter(SubSeq(remaining, bracket_start + 1, bracket_end - 1))
                             after == Drop(remaining, bracket_end)
                             next == IF StartsWith(after, <<".">>) THEN Tail(after) ELSE after
                         IN IF f.tag # "Ok" THEN f
                            ELSE parse_loop(next, segs \o before.val \o <<Filter(f.val)>>)
            ELSE LET plain == parse_dot_parts(Split(remaining, "."))
                 IN IF plain.tag # "Ok" THEN plain ELSE Ok(segs \o plain.val)

\* parse that reads the single dot as the root path.
parse_DotIsRoot(input) ==
    IF input = <<>> \/ input = <<".">> THEN Ok(<<>>) ELSE parse_loop(input, <<>>)

\* QueryPath::parse
parse(input) == IF input = <<>> THEN Ok(<<>>) ELSE parse_loop(input, <<>>)

\* QueryPath::has_wildcard
has_wildcard(segs) == \E i \in 1..Len(segs) : segs[i].seg = "Wildcard"

\* QueryPath::has_filter
has_filter(segs) == \E i \in 1..Len(segs) : segs[i].seg = "Filter"

\* has_filter_with_continuation with the bound segments.len() in place of
\* segments.len() - 1: a trailing Filter counts as continued.
has_filter_with_continuation_OffByOne(segs) ==
    \E i \in 1..Len(segs) : segs[i].seg = "Filter" /\ i - 1 < Len(segs)

\* QueryPath::has_filter_with_continuation.  The index i is 0-based in the
\* source and the bound is segments.len() - 1 on a usize, which wraps for an
\* empty path; the loop body does not run then.
has_filter_with_continuation(segs) ==
    \E i \in 1..Len(segs) : segs[i].seg = "Filter" /\ i - 1 < Len(segs) - 1

\* is_empty inverted: true of the paths that have segments.
is_empty_Inverted(segs) == segs # <<>>

\* QueryPath::is_empty
is_empty(segs) == segs = <<>>

(***************************************************************************)
(* src/query/shortcuts.rs                                                  *)
(***************************************************************************)

\* The arms of the match in shortcut_expansion.
ShortcutTable ==
    << [alias |-> <<"f","e","e">>,
        canon |-> <<"b","o","d","y",".","f","e","e">>],
       [alias |-> <<"i","n","p","u","t","s">>,
        canon |-> <<"b","o","d","y",".","i","n","p","u","t","s">>],
       [alias |-> <<"o","u","t","p","u","t","s">>,
        canon |-> <<"b","o","d","y",".","o","u","t","p","u","t","s">>],
       [alias |-> <<"m","e","t","a","d","a","t","a">>,
        canon |-> <<"a","u","x","i","l","i","a","r","y","_","d","a","t","a",".","m","e","t","a","d","a","t","a">>],
       [alias |-> <<"w","i","t","n","e","s","s","e","s">>,
        canon |-> <<"w","i","t","n","e","s","s","_","s","e","t">>],
       [alias |-> <<"h","a","s","h">>,
        canon |-> <<"_","_","h","a","s","h","_","_">>],
       [alias |-> <<"t","t","l">>,
        canon |-> <<"b","o","d","y",".","t","t","l">>],
       [alias |-> <<"m","i","n","t">>,
        canon |-> <<"b","o","d","y",".","m","i","n","t">>],
       [alias |-> <<"c","e","r","t","s">>,
        canon |-> <<"b","o","d","y",".","c","e","r","t","s">>],
       [alias |-> <<"w","i","t","h","d","r","a","w","a","l","s">>,
        canon |-> <<"b","o","d","y",".","w","i","t","h","d","r","a","w","a","l","s">>],
       [alias |-> <<"c","o","l","l","a","t","e","r","a","l">>,
        canon |-> <<"b","o","d","y",".","c","o","l","l","a","t","e","r","a","l","_","i","n","p","u","t","s">>],
       [alias |-> <<"r","e","q","u","i","r","e","d","_","s","i","g","n","e","r","s">>,
        canon |-> <<"b","o","d","y",".","r","e","q","u","i","r","e","d","_","s","i","g","n","e","r","s">>],
       [alias |-> <<"n","e","t","w","o","r","k","_","i","d">>,
        canon |-> <<"b","o","d","y",".","n","e","t","w","o","r","k","_","i","d">>],
       [alias |-> <<"v","a","l","i","d","i","t","y","_","s","t","a","r","t">>,
        canon |-> <<"b","o","d","y",".","v","a","l","i","d","i","t","y","_","i","n","t","e","r","v","a","l","_","s","t","a","r","t">>],
       [alias |-> <<"s","c","r","i","p","t","_","d","a","t","a","_","h","a","s","h">>,
        canon |-> <<"b","o","d","y",".","s","c","r","i","p","t","_","d","a","t","a","_","h","a","s","h">>],
       [alias |-> <<"c","o","l","l","a","t","e","r","a","l","_","r","e","t","u","r","n">>,
        canon |-> <<"b","o","d","y",".","c","o","l","l","a","t","e","r","a","l","_","r","e","t","u","r","n">>],
       [alias |-> <<"t","o","t","a","l","_","c","o","l","l","a","t","e","r","a","l">>,
        canon |-> <<"b","o","d","y",".","t","o","t","a","l","_","c","o","l","l","a","t","e","r","a","l">>] >>

Some(v) == [tag |-> "Some", val |-> v]

\* shortcut_expansion: Some(canonical prefix) for an alias, None otherwise.
shortcut_expansion(shortcut) ==
    IF \E i \in 1..Len(ShortcutTable) : ShortcutTable[i].alias = shortcut
    THEN Some(ShortcutTable[CHOOSE i \in 1..Len(ShortcutTable) : ShortcutTable[i].alias = shortcut].canon)
    ELSE None

\* expand_shortcut keeping the rest after the delimiter, without it.
expand_shortcut_DropDelimiter(q) ==
    LET dot_pos == Find(q, <<".">>)
        bracket_pos == Find(q, <<"[">>)
        delimiter_pos == IF dot_pos # 0 /\ bracket_pos # 0
                         THEN (IF dot_pos < bracket_pos THEN dot_pos ELSE bracket_pos)
                         ELSE IF dot_pos # 0 THEN dot_pos
                         ELSE bracket_pos
    IN IF shortcut_expansion(q).tag = "Some" THEN shortcut_expansion(q).val
       ELSE IF delimiter_pos # 0 /\ shortcut_expansion(Take(q, delimiter_pos - 1)).tag = "Some"
         THEN shortcut_expansion(Take(q, delimiter_pos - 1)).val \o Drop(q, delimiter_pos)
       ELSE q

\* expand_shortcut
expand_shortcut(q) ==
    LET dot_pos == Find(q, <<".">>)
        bracket_pos == Find(q, <<"[">>)
        delimiter_pos == IF dot_pos # 0 /\ bracket_pos # 0
                         THEN (IF dot_pos < bracket_pos THEN dot_pos ELSE bracket_pos)
                         ELSE IF dot_pos # 0 THEN dot_pos
                         ELSE bracket_pos
    IN IF shortcut_expansion(q).tag = "Some" THEN shortcut_expansion(q).val
       ELSE IF delimiter_pos # 0 /\ shortcut_expansion(Take(q, delimiter_pos - 1)).tag = "Some"
         THEN shortcut_expansion(Take(q, delimiter_pos - 1)).val \o Drop(q, delimiter_pos - 1)
       ELSE q

\* is_hash_query testing the start of the expansion only.
is_hash_query_Prefix(e) == StartsWith(e, <<"_","_","h","a","s","h","_","_">>)

\* is_hash_query
is_hash_query(e) == e = <<"_","_","h","a","s","h","_","_">>

(***************************************************************************)
(* Tree values (serde_json::Value) and src/query/engine.rs                 *)
(***************************************************************************)
JNull == [k |-> "Null"]

JBool(b) == [k |-> "Bool", b |-> b]

\* The numbers of the model's trees are integers.
JNumber(n) == [k |-> "Number", n |-> n]

JString(s) == [k |-> "String", s |-> s]

JArray(items) == [k |-> "Array", items |-> items]

\* map is a function from the keys present to their values.
JObject(map) == [k |-> "Object", map |-> map]

\* GetKey as the indexing value[key] would do it: Null for a missing key and
\* for a node that is not an Object.
GetKey_NullOnMiss(v, key) ==
    IF v.k = "Object" /\ key \in DOMAIN v.map THEN Some(v.map[key]) ELSE Some(JNull)

\* Value::get(&str): a key of an Object; None on a missing key and on every
\* other kind of node.
GetKey(v, key) ==
    IF v.k = "Object" /\ key \in DOMAIN v.map THEN Some(v.map[key]) ELSE None

\* GetIndex with positions counted from 1.
GetIndex_OneBased(v, idx) ==
    IF v.k = "Array" /\ idx >= 1 /\ idx <= Len(v.items) THEN Some(v.items[idx]) ELSE None

\* Value::get(usize): a position of an Array (0-based); None when out of
\* range and on every other kind of node.
GetIndex(v, idx) ==
    IF v.k = "Array" /\ idx < Len(v.items) THEN Some(v.items[idx + 1]) ELSE None

\* as_array that reads a value that is not an array as the empty array.
as_array_EmptyOnMismatch(v) == IF v.k = "Array" THEN Some(v.items) ELSE Some(<<>>)

\* Value::as_array: the elements of an Array, None for any other value.
as_array(v) == IF v.k = "Array" THEN Some(v.items) ELSE None

\* Value::as_f64
as_f64(v) == IF v.k = "Number" THEN Some(F64Fin(v.n, 0)) ELSE None

\* Value::as_str
as_str(v) == IF v.k = "String" THEN Some(v.s) ELSE None

\* impl From<JsonValue> for QueryValue: variant by variant, the elements of
\* an Array converted in turn, the map of an Object kept as it is.
RECURSIVE QueryValueFrom(_)
QueryValueFrom(v) ==
    CASE v.k = "Null"   -> [k |-> "Null"]
      [] v.k = "Bool"   -> [k |-> "Bool", b |-> v.b]
      [] v.k = "Number" -> [k |-> "Number", n |-> v.n]
      [] v.k = "String" -> [k |-> "String", s |-> v.s]
      [] v.k = "Array"  -> [k |-> "Array",
                            items |-> [i \in 1..Len(v.items) |-> QueryValueFrom(v.items[i])]]
      [] v.k = "Object" -> [k |-> "Object", map |-> v.map]

\* get_nested_parts that reads a numeral part as a position when the node is
\* an Array, the way the Index segment of a path does.
RECURSIVE get_nested_parts_IndexArrays(_, _)
get_nested_parts_IndexArrays(current, parts) ==
    IF parts = <<>> THEN Some(current)
    ELSE LET next == IF current.k = "Array" /\ ParseUsize(Head(parts)).tag = "Ok"
                     THEN GetIndex(current, ParseUsize(Head(parts)).val)
                     ELSE GetKey(current, Head(parts))
         IN IF next.tag = "None" THEN None
            ELSE get_nested_parts_IndexArrays(next.val, Tail(parts))

\* get_nested_field: successive key lookups on the parts of path split at '.'.
RECURSIVE get_nested_parts(_, _)
get_nested_parts(current, parts) ==
    IF parts = <<>> THEN Some(current)
    ELSE IF GetKey(current, Head(parts)).tag = "None" THEN None
    ELSE get_nested_parts(GetKey(current, Head(parts)).val, Tail(parts))

get_nested_field(value, p) == get_nested_parts(value, Split(p, "."))

\* FieldF64 with an absent field read as the number 0.
FieldF64_AbsentAsZero(fv) == IF fv.tag = "Some" THEN as_f64(fv.val) ELSE Some(F64Fin(0, 0))

\* field_value.and_then(|v| v.as_f64())
FieldF64(fv) == IF fv.tag = "Some" THEN as_f64(fv.val) ELSE None

\* field_value.and_then(|v| v.as_str())
FieldStr(fv) == IF fv.tag = "Some" THEN as_str(fv.val) ELSE None

\* is_none_or_null as is_some_and: an absent field does not count as null.
is_none_or_null_PresentOnly(fv) == fv.tag = "Some" /\ fv.val.k = "Null"

\* field_value.is_none_or(|v| v.is_null())
is_none_or_null(fv) == fv.tag = "None" \/ fv.val.k = "Null"

\* field_value.is_some_and(|v| !v.is_null())
is_some_and_not_null(fv) == fv.tag = "Some" /\ fv.val.k # "Null"

\* evaluate_filter with the last arm of the match true: a combination of
\* operator and value kind that has no arm of its own matches every element.
evaluate_filter_OtherTrue(value, f) ==
    LET field_value == get_nested_field(value, f.field)
        num == FieldF64(field_value)
        str == FieldStr(field_value)
    IN CASE f.op = "Gt"  /\ f.value.fv = "Number" -> num.tag = "Some" /\ F64Gt(num.val, f.value.num)
         [] f.op = "Lt"  /\ f.value.fv = "Number" -> num.tag = "Some" /\ F64Lt(num.val, f.value.num)
         [] f.op = "Gte" /\ f.value.fv = "Number" -> num.tag = "Some" /\ F64Ge(num.val, f.value.num)
         [] f.op = "Lte" /\ f.value.fv = "Number" -> num.tag = "Some" /\ F64Le(num.val, f.value.num)
         [] f.op = "Eq"  /\ f.value.fv = "Number" -> num.tag = "Some" /\ F64AbsDiffLtEps(num.val, f.value.num)
         [] f.op = "Ne"  /\ f.value.fv = "Number" -> num.tag = "Some" /\ F64AbsDiffGeEps(num.val, f.value.num)
         [] f.op = "Eq"  /\ f.value.fv = "String" -> str.tag = "Some" /\ str.val = f.value.str
         [] f.op = "Ne"  /\ f.value.fv = "String" -> str.tag = "Some" /\ str.val # f.value.str
         [] f.op = "Contains" /\ f.value.fv = "String" -> str.tag = "Some" /\ Contains(str.val, f.value.str)
         [] f.op = "Eq"  /\ f.value.fv = "Null" -> is_none_or_null(field_value)
         [] f.op = "Ne"  /\ f.value.fv = "Null" -> is_some_and_not_null(field_value)
         [] OTHER -> TRUE

\* evaluate_filter
evaluate_filter(value, f) ==
    LET field_value == get_nested_field(value, f.field)
        num == FieldF64(field_value)
        str == FieldStr(field_value)
    IN CASE f.op = "Gt"  /\ f.value.fv = "Number" -> num.tag = "Some" /\ F64Gt(num.val, f.value.num)
         [] f.op = "Lt"  /\ f.value.fv = "Number" -> num.tag = "Some" /\ F64Lt(num.val, f.value.num)
         [] f.op = "Gte" /\ f.value.fv = "Number" -> num.tag = "Some" /\ F64Ge(num.val, f.value.num)
         [] f.op = "Lte" /\ f.value.fv = "Number" -> num.tag = "Some" /\ F64Le(num.val, f.value.num)
         [] f.op = "Eq"  /\ f.value.fv = "Number" -> num.tag = "Some" /\ F64AbsDiffLtEps(num.val, f.value.num)
         [] f.op = "Ne"  /\ f.value.fv = "Number" -> num.tag = "Some" /\ F64AbsDiffGeEps(num.val, f.value.num)
         [] f.op = "Eq"  /\ f.value.fv = "String" -> str.tag = "Some" /\ str.val = f.value.str
         [] f.op = "Ne"  /\ f.value.fv = "String" -> str.tag = "Some" /\ str.val # f.value.str
         [] f.op = "Contains" /\ f.value.fv = "String" -> str.tag = "Some" /\ Contains(str.val, f.value.str)
         [] f.op = "Eq"  /\ f.value.fv = "Null" -> is_none_or_null(field_value)
         [] f.op = "Ne"  /\ f.value.fv = "Null" -> is_some_and_not_null(field_value)
         [] OTHER -> FALSE

\* FilterItems with the predicate negated: the elements that fail the filter.
RECURSIVE FilterItems_Negated(_, _)
FilterItems_Negated(items, f) ==
    IF items = <<>> THEN <<>>
    ELSE (IF ~evaluate_filter(Head(items), f) THEN <<Head(items)>> ELSE <<>>)
         \o FilterItems_Negated(Tail(items), f)

\* arr.iter().filter(|item| evaluate_filter(item, filter)).cloned().collect()
RECURSIVE FilterItems(_, _)
FilterItems(items, f) ==
    IF items = <<>> THEN <<>>
    ELSE (IF evaluate_filter(Head(items), f) THEN <<Head(items)>> ELSE <<>>)
         \o FilterItems(Tail(items), f)

\* execute_path: the fold over the segments from the node reached so far.
RECURSIVE execute_path_from(_, _)
execute_path_from(current, segs) ==
    IF segs = <<>> THEN Ok(QueryValueFrom(current))
    ELSE LET segment == Head(segs)
         IN CASE segment.seg = "Field" ->
                   IF GetKey(current, segment.name).tag = "None"
                   THEN FieldNotFound(segment.name)
                   ELSE execute_path_from(GetKey(current, segment.name).val, Tail(segs))
              [] segment.seg = "Index" ->
                   IF GetIndex(current, segment.idx).tag = "None"
                   THEN IndexOutOfBounds(segment.idx)
                   ELSE execute_path_from(GetIndex(current, segment.idx).val, Tail(segs))
              [] segment.seg = "Wildcard" ->
                   InvalidQuery("Unexpected wildcard in non-wildcard path")
              [] segment.seg = "Filter" ->
                   IF as_array(current).tag = "None" THEN InvalidQuery("Filter on non-array")
                   ELSE execute_path_from(JArray(FilterItems(as_array(current).val, segment.expr)), Tail(segs))

\* execute_path that reads every Index one position further.
execute_path_OffByOne(value, segs) ==
    execute_path_from(value, [i \in 1..Len(segs) |->
                                 IF segs[i].seg = "Index" THEN Index(segs[i].idx + 1)
                                 ELSE segs[i]])

execute_path(value, segs) == execute_path_from(value, segs)

RECURSIVE execute_path_recursive(_, _)
RECURSIVE fan_out(_, _, _, _)

\* extend_results that drops the error of a failing item and keeps the
\* results collected so far.
extend_results_SkipErrors(results, sub_results) ==
    IF sub_results.tag # "Ok" THEN Ok(results)
    ELSE Ok(results \o sub_results.val)

\* let sub_results = execute_path_recursive(item, rest)?;
\* results.extend(sub_results);
\* The error of the item leaves the function; the results are dropped.
extend_results(results, sub_results) ==
    IF sub_results.tag # "Ok" THEN sub_results
    ELSE Ok(results \o sub_results.val)

\* fan_out with the sub-results of each item put in front of the results
\* collected so far: the order of the array is reversed.
RECURSIVE fan_out_Reversed(_, _, _, _)
fan_out_Reversed(items, rest, f, results) ==
    IF items = <<>> THEN Ok(results)
    ELSE IF f = None \/ evaluate_filter(Head(items), f)
      THEN LET sub_results == execute_path_recursive(Head(items), rest)
           IN IF sub_results.tag # "Ok" THEN sub_results
              ELSE fan_out_Reversed(Tail(items), rest, f, sub_results.val \o results)
    ELSE fan_out_Reversed(Tail(items), rest, f, results)

\* The for loops of the Wildcard and Filter arms of execute_path_recursive:
\* the items still to visit, the segments after the current one, the filter
\* (None in the Wildcard arm) and the results collected so far.  The first
\* failing item returns its error and drops the results.
fan_out(items, rest, f, results) ==
    IF items = <<>> THEN Ok(results)
    ELSE IF f = None \/ evaluate_filter(Head(items), f)
      THEN LET extended == extend_results(results, execute_path_recursive(Head(items), rest))
           IN IF extended.tag # "Ok" THEN extended
              ELSE fan_out(Tail(items), rest, f, extended.val)
    ELSE fan_out(Tail(items), rest, f, results)

\* execute_path_recursive that still resolves the remaining segments, against
\* null, when the Wildcard or the Filter reaches no element.
execute_path_recursive_ProbeRest(value, segs) ==
    IF segs = <<>> THEN Ok(<<QueryValueFrom(value)>>)
    ELSE LET current_segment == Head(segs)
             rest == Tail(segs)
         IN CASE current_segment.seg = "Field" ->
                   IF GetKey(value, current_segment.name).tag = "None"
                   THEN FieldNotFound(current_segment.name)
                   ELSE execute_path_recursive(GetKey(value, current_segment.name).val, rest)
              [] current_segment.seg = "Index" ->
                   IF GetIndex(value, current_segment.idx).tag = "None"
                   THEN IndexOutOfBounds(current_segment.idx)
                   ELSE execute_path_recursive(GetIndex(value, current_segment.idx).val, rest)
              [] current_segment.seg = "Wildcard" ->
                   IF as_array(value).tag = "None" THEN InvalidQuery("Wildcard on non-array")
                   ELSE IF as_array(value).val = <<>> /\ rest # <<>>
                     THEN extend_results(<<>>, execute_path_recursive(JNull, rest))
                   ELSE fan_out(as_array(value).val, rest, None, <<>>)
              [] current_segment.seg = "Filter" ->
                   IF as_array(value).tag = "None" THEN InvalidQuery("Filter on non-array")
                   ELSE IF FilterItems(as_array(value).val, current_segment.expr) = <<>> /\ rest # <<>>
                     THEN extend_results(<<>>, execute_path_recursive(JNull, rest))
                   ELSE fan_out(as_array(value).val, rest, current_segment.expr, <<>>)

\* execute_path_recursive
execute_path_recursive(value, segs) ==
    IF segs = <<>> THEN Ok(<<QueryValueFrom(value)>>)
    ELSE LET current_segment == Head(segs)
             rest == Tail(segs)
         IN CASE current_segment.seg = "Field" ->
                   IF GetKey(value, current_segment.name).tag = "None"
                   THEN FieldNotFound(current_segment.name)
                   ELSE execute_path_recursive(GetKey(value, current_segment.name).val, rest)
              [] current_segment.seg = "Index" ->
                   IF GetIndex(value, current_segment.idx).tag = "None"
                   THEN IndexOutOfBounds(current_segment.idx)
                   ELSE execute_path_recursive(GetIndex(value, current_segment.idx).val, rest)
              [] current_segment.seg = "Wildcard" ->
                   IF as_array(value).tag = "None" THEN InvalidQuery("Wildcard on non-array")
                   ELSE fan_out(as_array(value).val, rest, None, <<>>)
              [] current_segment.seg = "Filter" ->
                   IF as_array(value).tag = "None" THEN InvalidQuery("Filter on non-array")
                   ELSE fan_out(as_array(value).val, rest, current_segment.expr, <<>>)

\* execute_path_with_wildcards
execute_path_with_wildcards(value, segs) == execute_path_recursive(value, segs)

(***************************************************************************)
(* Bounds and input sets                                                   *)
(***************************************************************************)

\* Longest query string given to parse in SpecParse.
MaxQueryLen == 5

\* Longest bracket content given to parse_filter in SpecFilter.
MaxContentLen == 4

\* Characters of the query strings of SpecParse: a field letter, a digit, the
\* dot, both brackets, an operator and a quote.
ParseAlphabet == {"a", "1", ".", "[", "]", ">", "\""}

\* Characters of the bracket contents of SpecFilter.
FilterAlphabet == {"a", "1", " ", ">", "=", "!", "~", "\""}

(***************************************************************************)
(* SpecParse: QueryPath::parse applied to every short query string.        *)
(***************************************************************************)
InitParse ==
    /\ pc = "parse"
    /\ first = None /\ second = None /\ resolved = None
    /\ stack = None /\ ret = None
    /\ run_result = None /\ exit_status = None
    /\ serialized = None /\ reparsed = None
    /\ value_text = None /\ filter_value = None /\ part_text = None /\ parsed_segment = None
    /\ query \in StringsUpTo(ParseAlphabet, MaxQueryLen)
    /\ tree = None /\ expanded = None /\ path = None /\ result = None
    /\ content = None /\ filter = None /\ segments = None
    /\ det = None /\ fan = None /\ candidate = None /\ matched = None

\* A call of QueryPath::parse(query).
Parse ==
    /\ pc = "parse"
    /\ path' = parse(query)
    /\ pc' = "parsed"
    /\ UNCHANGED <<query, tree, expanded, result, content, filter, segments, det, fan, candidate, matched, value_text, filter_value, part_text, parsed_segment, serialized, reparsed, run_result, exit_status, stack, ret, first, second, resolved>>

NextParse == Parse

SpecParse == InitParse /\ [][NextParse]_vars

(***************************************************************************)
(* SpecFilter: parse_filter applied to every short bracket content, alone  *)
(* and through parse on the query "a[" content "]".                        *)
(***************************************************************************)
InitFilter ==
    /\ pc = "filter"
    /\ first = None /\ second = None /\ resolved = None
    /\ stack = None /\ ret = None
    /\ run_result = None /\ exit_status = None
    /\ serialized = None /\ reparsed = None
    /\ value_text = None /\ filter_value = None /\ part_text = None /\ parsed_segment = None
    /\ content \in StringsUpTo(FilterAlphabet, MaxContentLen)
    /\ query = None /\ tree = None /\ expanded = None /\ path = None /\ result = None
    /\ filter = None /\ segments = None
    /\ det = None /\ fan = None /\ candidate = None /\ matched = None

\* A call of QueryPath::parse_filter(content).
ParseFilter ==
    /\ pc = "filter"
    /\ filter' = parse_filter(content)
    /\ pc' = "filtered"
    /\ UNCHANGED <<query, tree, expanded, path, result, content, segments, det, fan, candidate, matched, value_text, filter_value, part_text, parsed_segment, serialized, reparsed, run_result, exit_status, stack, ret, first, second, resolved>>

\* A call of QueryPath::parse on the content in brackets after a field.
ParseBracketed ==
    /\ pc = "filtered"
    /\ query' = <<"a", "[">> \o content \o <<"]">>
    /\ path' = parse(<<"a", "[">> \o content \o <<"]">>)
    /\ pc' = "parsed"
    /\ UNCHANGED <<tree, expanded, result, content, filter, segments, det, fan, candidate, matched, value_text, filter_value, part_text, parsed_segment, serialized, reparsed, run_result, exit_status, stack, ret, first, second, resolved>>

NextFilter == ParseFilter \/ ParseBracketed

SpecFilter == InitFilter /\ [][NextFilter]_vars

(***************************************************************************)
(* Claims about the parser                                                 *)
(***************************************************************************)
IsInvalidQuery(r) == r.tag = "Err" /\ r.kind = "InvalidQuery"

\* C7: for every input string parse returns a Path or an InvalidQuery error;
\* it never panics.
C7_ParseTotal ==
    pc = "parsed" => (path.tag = "Ok" \/ IsInvalidQuery(path))

\* The text before the first '[' of q (all of q when it has none).
BeforeFirstBracket(q) ==
    IF Find(q, <<"[">>) = 0 THEN q ELSE Take(q, Find(q, <<"[">>) - 1)

\* q has a leading dot or two consecutive dots in its dot-separated part
\* before any bracket: an empty segment that is not the trailing one.
InteriorEmptySegment(q) ==
    \/ StartsWith(BeforeFirstBracket(q), <<".">>)
    \/ Contains(BeforeFirstBracket(q), <<".", ".">>)

\* C8: a query with an empty dot-separated segment that is not the trailing
\* one, with or without a bracketed filter, is not accepted by parse.
C8_EmptySegmentRejected ==
    (pc = "parsed" /\ InteriorEmptySegment(query)) => path.tag # "Ok"

\* Some '[' of q has no ']' after it.
UnmatchedOpen(q) ==
    \E i \in 1..Len(q) : q[i] = "[" /\ \A j \in (i + 1)..Len(q) : q[j] # "]"

\* C9: a query in which some '[' has no ']' after it is rejected by parse with
\* InvalidQuery.
C9_UnmatchedBracketRejected ==
    (pc = "parsed" /\ UnmatchedOpen(query)) => IsInvalidQuery(path)

\* The operator tokens of the filter grammar.
OperatorTokens == {ops[k].tok : k \in 1..Len(ops)}

HasOperator(s) == \E tok \in OperatorTokens : Contains(s, tok)

\* The token of an operator name.
TokenOf(o) == ops[CHOOSE k \in 1..Len(ops) : ops[k].op = o].tok

\* The filter expression e was split off s at an occurrence of its operator
\* with the non-empty, trimmed text e.field on the left.
SplitAtOperator(s, e) ==
    /\ e.field # <<>>
    /\ e.field = Trim(e.field)
    /\ \E i \in 1..Len(s) :
          /\ SubSeq(s, i, i + Len(TokenOf(e.op)) - 1) = TokenOf(e.op)
          /\ Trim(Take(s, i - 1)) = e.field

\* s begins with an operator token and has no operator token after it: the
\* text left of the operator is empty.
OnlyLeadingOperator(s) ==
    \E tok \in OperatorTokens : StartsWith(s, tok) /\ ~HasOperator(Drop(s, Len(tok)))

\* The Filter segments of a parsed path.
FiltersOf(segs) == {segs[i].expr : i \in {j \in 1..Len(segs) : segs[j].seg = "Filter"}}

Single(v) == [qr |-> "Single", value |-> v]

Multiple(vs) == [qr |-> "Multiple", values |-> vs]

FullTransaction(json) == [qr |-> "FullTransaction", json |-> json]

HashKey == <<"h","a","s","h">>

BodyKey == <<"b","o","d","y">>

FeeKey == <<"f","e","e">>

OutputsKey == <<"o","u","t","p","u","t","s">>

InputsKey == <<"i","n","p","u","t","s">>

WitnessSetKey == <<"w","i","t","n","e","s","s","_","s","e","t">>

IsValidKey == <<"i","s","_","v","a","l","i","d">>

\* Most pieces a query of Spec has after its head.
MaxTailParts == 3

\* Most outputs of a transaction of Spec.
MaxOutputs == 2

\* How the queries of Spec begin: nothing, an alias, a canonical prefix, the
\* sentinel alias.
QueryHeads == {<<>>, <<"_","_","h","a","s","h","_","_">>, <<"o","u","t","p","u","t","s">>, <<"b","o","d","y",".","o","u","t","p","u","t","s">>, <<"h","a","s","h">>, <<"f","e","e">>}

\* What follows the head, piece by piece.
TailPieces == {<<".", "a">>, <<".", "0">>, <<".", "*">>, <<"[", "a", ">", "1", "]">>, <<".">>, <<"a">>}

RECURSIVE Flatten(_)
Flatten(ss) == IF ss = <<>> THEN <<>> ELSE Head(ss) \o Flatten(Tail(ss))

Queries == {h \o Flatten(t) : h \in QueryHeads, t \in StringsUpTo(TailPieces, MaxTailParts)}

\* The outputs of the transactions of Spec; the keys a and b stand for the
\* fields of an output.
OutputItems == {JObject(<<"a">> :> JNumber(1)), JObject((<<"a">> :> JNumber(2)) @@ (<<"b">> :> JNull))}

\* transaction_to_json(tx): an Object with the hash, the body (inputs,
\* outputs, fee), the witness set and the validity flag.
TxTrees ==
    {JObject((HashKey :> JString(<<"c", "0">>))
             @@ (BodyKey :> JObject((InputsKey :> JArray(<<>>))
                                    @@ (OutputsKey :> JArray(outs))
                                    @@ (FeeKey :> JNumber(2))))
             @@ (WitnessSetKey :> JObject(<<>>))
             @@ (IsValidKey :> JBool(TRUE)))
        : outs \in StringsUpTo(OutputItems, MaxOutputs)}

Init ==
    /\ pc = "start"
    /\ first = None /\ second = None /\ resolved = None
    /\ stack = None /\ ret = None
    /\ run_result = None /\ exit_status = None
    /\ serialized = None /\ reparsed = None
    /\ value_text = None /\ filter_value = None /\ part_text = None /\ parsed_segment = None
    /\ query \in Queries
    /\ tree \in TxTrees
    /\ expanded = None /\ path = None /\ result = None
    /\ content = None /\ filter = None /\ segments = None
    /\ det = None /\ fan = None /\ candidate = None /\ matched = None

\* let expanded = expand_shortcut(query);
ExpandShortcut ==
    /\ pc = "start"
    /\ expanded' = expand_shortcut(query)
    /\ pc' = "expanded"
    /\ UNCHANGED <<query, tree, path, result, content, filter, segments, det, fan, candidate, matched, value_text, filter_value, part_text, parsed_segment, serialized, reparsed, run_result, exit_status, stack, ret, first, second, resolved>>

\* if is_hash_query(&expanded) { return Ok(Single(String(hash_hex))) }
HashQuery ==
    /\ pc = "expanded"
    /\ is_hash_query(expanded)
    /\ result' = Ok(Single(JString(tree.map[HashKey].s)))
    /\ pc' = "done"
    /\ UNCHANGED <<query, tree, expanded, path, content, filter, segments, det, fan, candidate, matched, value_text, filter_value, part_text, parsed_segment, serialized, reparsed, run_result, exit_status, stack, ret, first, second, resolved>>

\* let path = QueryPath::parse(&expanded)?;  An error (or a panic) ends the
\* call.
ParsePath ==
    /\ pc = "expanded"
    /\ ~is_hash_query(expanded)
    /\ path' = parse(expanded)
    /\ IF path'.tag = "Ok"
       THEN pc' = "parsed" /\ result' = result
       ELSE pc' = "done" /\ result' = path'
    /\ UNCHANGED <<query, tree, expanded, content, filter, segments, det, fan, candidate, matched, value_text, filter_value, part_text, parsed_segment, serialized, reparsed, run_result, exit_status, stack, ret, first, second, resolved>>

\* if path.is_empty() { return Ok(FullTransaction(tx_json)) }
ReturnFullTransaction ==
    /\ pc = "parsed"
    /\ is_empty(path.val)
    /\ result' = Ok(FullTransaction(tree))
    /\ pc' = "done"
    /\ UNCHANGED <<query, tree, expanded, path, content, filter, segments, det, fan, candidate, matched, value_text, filter_value, part_text, parsed_segment, serialized, reparsed, run_result, exit_status, stack, ret, first, second, resolved>>

\* needs_recursive without the wildcard test.
needs_recursive_FilterOnly(segs) == has_filter_with_continuation(segs)

\* let needs_recursive = path.has_wildcard() || path.has_filter_with_continuation();
needs_recursive(segs) == has_wildcard(segs) \/ has_filter_with_continuation(segs)

\* The needs_recursive branch: execute_path_with_wildcards, tagged Multiple.
ExecuteRecursive ==
    /\ pc = "parsed"
    /\ ~is_empty(path.val)
    /\ needs_recursive(path.val)
    /\ fan' = execute_path_with_wildcards(tree, path.val)
    /\ result' = IF fan'.tag = "Ok" THEN Ok(Multiple(fan'.val)) ELSE fan'
    /\ pc' = "done"
    /\ UNCHANGED <<query, tree, expanded, path, content, filter, segments, det, candidate, matched, value_text, filter_value, part_text, parsed_segment, serialized, reparsed, run_result, exit_status, stack, ret, first, second, resolved>>

\* The else branch: execute_path, tagged Single.
ExecuteSingle ==
    /\ pc = "parsed"
    /\ ~is_empty(path.val)
    /\ ~needs_recursive(path.val)
    /\ det' = execute_path(tree, path.val)
    /\ result' = IF det'.tag = "Ok" THEN Ok(Single(det'.val)) ELSE det'
    /\ pc' = "done"
    /\ UNCHANGED <<query, tree, expanded, path, content, filter, segments, fan, candidate, matched, value_text, filter_value, part_text, parsed_segment, serialized, reparsed, run_result, exit_status, stack, ret, first, second, resolved>>

Next ==
    \/ ExpandShortcut
    \/ HashQuery
    \/ ParsePath
    \/ ReturnFullTransaction
    \/ ExecuteRecursive
    \/ ExecuteSingle

Spec == Init /\ [][Next]_vars

(***************************************************************************)
(* Claims about execute_query                                              *)
(***************************************************************************)

\* The path has a Wildcard, or a Filter that is not its last segment.
Branching(segs) ==
    \/ \E i \in 1..Len(segs) : segs[i] = Wildcard
    \/ \E i \in 1..(Len(segs) - 1) : segs[i].seg = "Filter"

\* C1: when the expansion is not the sentinel and parses to a non-empty path,
\* fan-out execution is used (a success tagged Multiple) exactly when the
\* path has a Wildcard or a Filter that is not the last segment; otherwise
\* deterministic execution is used (a success tagged Single).
C1_ModeSelection ==
    (pc = "done" /\ ~is_hash_query(expanded) /\ path.tag = "Ok" /\ path.val # <<>>) =>
        IF Branching(path.val)
        THEN /\ fan # None /\ det = None
             /\ result.tag = "Ok" => result.val.qr = "Multiple"
        ELSE /\ det # None /\ fan = None
             /\ result.tag = "Ok" => result.val.qr = "Single"

\* C1 witness: a path whose only special segment is a trailing Filter ran in
\* deterministic mode and gave a Single array.
C1_Witness ==
    /\ pc = "done"
    /\ query = <<"o","u","t","p","u","t","s">> \o <<"[", "a", ">", "1", "]">>
    /\ det # None /\ fan = None
    /\ result.tag = "Ok" /\ result.val.qr = "Single" /\ result.val.value.k = "Array"

(***************************************************************************)
(* SpecExec: execute_path and execute_path_recursive applied to every      *)
(* small tree and every short segment list, and the mode dispatch of       *)
(* execute_query applied to the same pair.                                 *)
(***************************************************************************)

\* Most segments of a path of SpecExec.
MaxSegs == 3

\* Most elements of an array of SpecExec.
MaxArrayLen == 2

KeyA == <<"a">>

KeyB == <<"b">>

\* The array elements of SpecExec: scalars, objects with and without the
\* keys a and b, a nested object, an array.
ExecItems ==
    { JNumber(1), JNull,
      JObject(KeyA :> JNumber(1)),
      JObject((KeyA :> JNumber(2)) @@ (KeyB :> JNull)),
      JObject(KeyA :> JObject(KeyB :> JNumber(1))),
      JArray(<<JNumber(2)>>) }

ExecArrays == {JArray(items) : items \in StringsUpTo(ExecItems, MaxArrayLen)}

\* The roots: an array, an object holding an array under a, an element, and
\* the remaining scalar kinds.
ExecTrees ==
    ExecArrays \cup {JObject(KeyA :> arr) : arr \in ExecArrays} \cup ExecItems
        \cup {JBool(TRUE), JString(<<"a">>)}

\* The segments of SpecExec.
ExecSegments ==
    { Field(KeyA), Field(KeyB), Index(0), Index(1), Wildcard,
      Filter(FilterExpr(KeyA, "Gt", NumberValue(F64Fin(1, 0)))),
      Filter(FilterExpr(KeyB, "Eq", NullValue)) }

InitExec ==
    /\ pc = "call"
    /\ first = None /\ second = None /\ resolved = None
    /\ stack = None /\ ret = None
    /\ run_result = None /\ exit_status = None
    /\ serialized = None /\ reparsed = None
    /\ value_text = None /\ filter_value = None /\ part_text = None /\ parsed_segment = None
    /\ tree \in ExecTrees
    /\ segments \in StringsUpTo(ExecSegments, MaxSegs)
    /\ query = None /\ expanded = None /\ path = None /\ result = None
    /\ content = None /\ filter = None
    /\ det = None /\ fan = None /\ candidate = None /\ matched = None

\* A call of execute_path(tree, segments).
ExecutePath ==
    /\ pc = "call"
    /\ det' = execute_path(tree, segments)
    /\ pc' = "det"
    /\ UNCHANGED <<query, tree, expanded, path, result, content, filter, segments, fan, candidate, matched, value_text, filter_value, part_text, parsed_segment, serialized, reparsed, run_result, exit_status, stack, ret, first, second, resolved>>

\* A call of execute_path_recursive(tree, segments).
ExecutePathRecursive ==
    /\ pc = "det"
    /\ fan' = execute_path_recursive(tree, segments)
    /\ pc' = "fan"
    /\ UNCHANGED <<query, tree, expanded, path, result, content, filter, segments, det, candidate, matched, value_text, filter_value, part_text, parsed_segment, serialized, reparsed, run_result, exit_status, stack, ret, first, second, resolved>>

\* The end of execute_query on a non-empty path: the mode is chosen and the
\* result of that mode is tagged.
Dispatch ==
    /\ pc = "fan"
    /\ ~is_empty(segments)
    /\ result' = IF needs_recursive(segments)
                 THEN (IF execute_path_with_wildcards(tree, segments).tag = "Ok"
                       THEN Ok(Multiple(execute_path_with_wildcards(tree, segments).val))
                       ELSE execute_path_with_wildcards(tree, segments))
                 ELSE (IF execute_path(tree, segments).tag = "Ok"
                       THEN Ok(Single(execute_path(tree, segments).val))
                       ELSE execute_path(tree, segments))
    /\ pc' = "done"
    /\ UNCHANGED <<query, tree, expanded, path, content, filter, segments, det, fan, candidate, matched, value_text, filter_value, part_text, parsed_segment, serialized, reparsed, run_result, exit_status, stack, ret, first, second, resolved>>

NextExec == ExecutePath \/ ExecutePathRecursive \/ Dispatch

SpecExec == InitExec /\ [][NextExec]_vars

(***************************************************************************)
(* Claims about the executor                                               *)
(***************************************************************************)

\* The segments are Field and Index segments only.
Plain(segs) == \A i \in 1..Len(segs) : segs[i].seg \in {"Field", "Index"}

\* The number of leading segments of segs that resolve from node v: a Field
\* resolves in an Object that has the key, an Index in an Array that has the
\* position.
RECURSIVE ResolvedPrefix(_, _)
ResolvedPrefix(v, segs) ==
    IF segs = <<>> THEN 0
    ELSE IF Head(segs).seg = "Field" /\ v.k = "Object" /\ Head(segs).name \in DOMAIN v.map
      THEN 1 + ResolvedPrefix(v.map[Head(segs).name], Tail(segs))
    ELSE IF Head(segs).seg = "Index" /\ v.k = "Array" /\ Head(segs).idx + 1 \in DOMAIN v.items
      THEN 1 + ResolvedPrefix(v.items[Head(segs).idx + 1], Tail(segs))
    ELSE 0

\* The node that the plain segments segs, all of which resolve, address from v.
RECURSIVE NodeAt(_, _)
NodeAt(v, segs) ==
    IF segs = <<>> THEN v
    ELSE IF Head(segs).seg = "Field" THEN NodeAt(v.map[Head(segs).name], Tail(segs))
    ELSE NodeAt(v.items[Head(segs).idx + 1], Tail(segs))

Resolves(v, segs) == Plain(segs) /\ ResolvedPrefix(v, segs) = Len(segs)

\* The positions of the array items, in order, whose element satisfies Keep.
Kept(items, Keep(_)) == SelectSeq([i \in 1..Len(items) |-> i], LAMBDA i : Keep(items[i]))

\* The filter e holds of the element c, read off the two filters of SpecExec:
\* a > 1 wants a number above 1 under a, b == null wants b absent or null.
Satisfies(c, e) ==
    IF e.op = "Gt"
    THEN c.k = "Object" /\ KeyA \in DOMAIN c.map /\ c.map[KeyA].k = "Number" /\ c.map[KeyA].n > 1
    ELSE ~(c.k = "Object" /\ KeyB \in DOMAIN c.map /\ c.map[KeyB].k # "Null")

\* C2: with no Wildcard and one Filter, the segments before it addressing an
\* array A: a trailing Filter gives Single(Array(xs)), xs the elements of A
\* that satisfy the filter, in A's order; a Filter followed by plain segments
\* that resolve in every satisfying element gives Multiple of the nodes they
\* address, in A's order.
C2_FilterResults ==
    (pc = "done") =>
        \A i \in 1..Len(segments) :
            LET pre == Take(segments, i - 1)
                post == Drop(segments, i)
            IN (/\ segments[i].seg = "Filter" /\ Plain(pre) /\ Plain(post)
                /\ Resolves(tree, pre) /\ NodeAt(tree, pre).k = "Array") =>
                  LET A == NodeAt(tree, pre).items
                      keep == Kept(A, LAMBDA c : Satisfies(c, segments[i].expr))
                  IN IF post = <<>>
                     THEN /\ det = Ok(JArray([j \in 1..Len(keep) |-> A[keep[j]]]))
                          /\ result = Ok(Single(det.val))
                     ELSE (\A j \in 1..Len(keep) : Resolves(A[keep[j]], post)) =>
                            /\ fan = Ok([j \in 1..Len(keep) |-> NodeAt(A[keep[j]], post)])
                            /\ result = Ok(Multiple(fan.val))

\* C2 witness: a non-trailing Filter over a two-element array kept one
\* element and returned the node addressed in it.
C2_Witness ==
    /\ pc = "done"
    /\ Len(segments) = 3 /\ segments[1] = Field(KeyA) /\ segments[2].seg = "Filter"
    /\ segments[3] = Field(KeyA)
    /\ tree \in {JObject(KeyA :> arr) : arr \in ExecArrays}
    /\ Len(tree.map[KeyA].items) = 2
    /\ result.tag = "Ok" /\ result.val.qr = "Multiple" /\ result.val.values = <<JNumber(2)>>

\* C3: one Wildcard over an N-element array, no Filter, the plain segments
\* after it resolving in every element: fan-out execution returns N results,
\* the i-th the node the remaining segments address in the i-th element.
C3_WildcardFanOut ==
    (pc \in {"fan", "done"}) =>
        \A i \in 1..Len(segments) :
            LET pre == Take(segments, i - 1)
                post == Drop(segments, i)
            IN (/\ segments[i] = Wildcard /\ Plain(pre) /\ Plain(post)
                /\ Resolves(tree, pre) /\ NodeAt(tree, pre).k = "Array"
                /\ \A j \in 1..Len(NodeAt(tree, pre).items) :
                       Resolves(NodeAt(tree, pre).items[j], post)) =>
                  /\ fan.tag = "Ok"
                  /\ Len(fan.val) = Len(NodeAt(tree, pre).items)
                  /\ \A j \in 1..Len(fan.val) : fan.val[j] = NodeAt(NodeAt(tree, pre).items[j], post)

\* C3 witness: a Wildcard over a two-element array with a segment after it
\* returned two results.
C3_Witness ==
    /\ pc = "fan"
    /\ segments = <<Field(KeyA), Wildcard, Field(KeyA)>>
    /\ tree \in {JObject(KeyA :> arr) : arr \in ExecArrays}
    /\ Len(tree.map[KeyA].items) = 2
    /\ fan.tag = "Ok" /\ Len(fan.val) = 2 /\ fan.val[1] # fan.val[2]

\* C3 witness for N = 0: a Wildcard over the empty array returned no result.
C3_WitnessEmpty ==
    /\ pc = "fan"
    /\ segments = <<Wildcard, Field(KeyA)>>
    /\ tree = JArray(<<>>)
    /\ fan = Ok(<<>>)

AllFields(segs) == \A i \in 1..Len(segs) : segs[i].seg = "Field"

\* C4: deterministic execution of a path of Field segments returns the
\* addressed value when every key exists along the path, and otherwise fails
\* with FieldNotFound naming the first segment whose key is absent or whose
\* current node is not an Object.
C4_FieldAddressing ==
    (pc \in {"det", "fan", "done"} /\ AllFields(segments)) =>
        IF ResolvedPrefix(tree, segments) = Len(segments)
        THEN det = Ok(NodeAt(tree, segments))
        ELSE det = FieldNotFound(segments[ResolvedPrefix(tree, segments) + 1].name)

\* C4 witness: the first key resolved, the second was looked up in a node
\* that is not an Object, and the error names the second.
C4_Witness ==
    /\ pc = "det"
    /\ segments = <<Field(KeyA), Field(KeyB)>>
    /\ tree.k = "Object" /\ KeyA \in DOMAIN tree.map
    /\ det = FieldNotFound(KeyB)

\* C4 witness of success: two keys resolved to the addressed value.
C4_WitnessFound ==
    /\ pc = "det"
    /\ segments = <<Field(KeyA), Field(KeyB)>>
    /\ det = Ok(JNumber(1))

\* C5: in both modes an Index(i) segment reached through plain segments
\* returns element i of an array longer than i, and fails with
\* IndexOutOfBounds(i) on a shorter array and on a node that is not an Array.
C5_IndexAddressing ==
    (pc \in {"fan", "done"} /\ segments # <<>> /\ segments[Len(segments)].seg = "Index") =>
        LET pre == Take(segments, Len(segments) - 1)
            i == segments[Len(segments)].idx
        IN Resolves(tree, pre) =>
              LET node == NodeAt(tree, pre)
              IN IF node.k = "Array" /\ i < Len(node.items)
                 THEN det = Ok(node.items[i + 1]) /\ fan = Ok(<<node.items[i + 1]>>)
                 ELSE det = IndexOutOfBounds(i) /\ fan = IndexOutOfBounds(i)

\* C5 witness: an index past the end of a one-element array.
C5_Witness ==
    /\ pc = "fan"
    /\ segments = <<Field(KeyA), Index(1)>>
    /\ tree \in {JObject(KeyA :> arr) : arr \in ExecArrays}
    /\ Len(tree.map[KeyA].items) = 1
    /\ det = IndexOutOfBounds(1) /\ fan = IndexOutOfBounds(1)

\* C5 witness on a node that is not an Array.
C5_WitnessObject ==
    /\ pc = "fan"
    /\ segments = <<Index(0)>>
    /\ tree.k = "Object"
    /\ det = IndexOutOfBounds(0) /\ fan = IndexOutOfBounds(0)

(***************************************************************************)
(* SpecEval: evaluate_filter applied to every candidate element and every  *)
(* filter over short field paths.                                          *)
(***************************************************************************)

\* Most keys in the field path of a filter of SpecEval.
MaxFieldParts == 2

\* A key that is a numeral.
Key0 == <<"0">>

\* The field paths as key lists, and joined with dots as a filter holds them.
FieldPaths == StringsUpTo({KeyA, KeyB, Key0}, MaxFieldParts) \ {<<>>}

RECURSIVE Join(_)
Join(parts) ==
    IF Len(parts) = 1 THEN Head(parts) ELSE Head(parts) \o <<".">> \o Join(Tail(parts))

FilterOps == {ops[k].op : k \in 1..Len(ops)}

EvalValues == {NullValue, NumberValue(F64Fin(1, 0)), StringValue(<<"x">>)}

EvalFilters == {FilterExpr(Join(p), o, v) : p \in FieldPaths, o \in FilterOps, v \in EvalValues}

\* The candidates: scalars, an array, objects with a absent, null, a number,
\* a string, a nested object with b absent, null, a number, an array under
\* a, and an object with the key 0.
Candidates ==
    { JNull, JNumber(1), JArray(<<JObject(KeyA :> JNumber(1))>>),
      JObject(<<>>),
      JObject(KeyA :> JNull),
      JObject(KeyA :> JNumber(1)),
      JObject((KeyA :> JString(<<"x">>)) @@ (KeyB :> JNull)),
      JObject(KeyA :> JObject(<<>>)),
      JObject(KeyA :> JObject(KeyB :> JNull)),
      JObject((KeyA :> JObject(KeyB :> JNumber(2))) @@ (KeyB :> JNumber(1))),
      JObject(KeyA :> JArray(<<JNumber(1)>>)),
      JObject(Key0 :> JNumber(1)) }

InitEval ==
    /\ pc = "eval"
    /\ first = None /\ second = None /\ resolved = None
    /\ stack = None /\ ret = None
    /\ run_result = None /\ exit_status = None
    /\ serialized = None /\ reparsed = None
    /\ value_text = None /\ filter_value = None /\ part_text = None /\ parsed_segment = None
    /\ candidate \in Candidates
    /\ filter \in EvalFilters
    /\ query = None /\ tree = None /\ expanded = None /\ path = None /\ result = None
    /\ content = None /\ segments = None
    /\ det = None /\ fan = None /\ matched = None

\* A call of evaluate_filter(candidate, filter).
EvaluateFilter ==
    /\ pc = "eval"
    /\ matched' = evaluate_filter(candidate, filter)
    /\ pc' = "evaluated"
    /\ UNCHANGED <<query, tree, expanded, path, result, content, filter, segments, det, fan, candidate, value_text, filter_value, part_text, parsed_segment, serialized, reparsed, run_result, exit_status, stack, ret, first, second, resolved>>

NextEval == EvaluateFilter

SpecEval == InitEval /\ [][NextEval]_vars

\* The keys of parts as Field segments.
AsFields(parts) == [i \in 1..Len(parts) |-> Field(parts[i])]

\* The field with key list parts resolves in candidate c to a null, resp. to a
\* value that is not null.
ResolvesToNull(c, parts) ==
    Resolves(c, AsFields(parts)) /\ NodeAt(c, AsFields(parts)).k = "Null"

ResolvesToNonNull(c, parts) ==
    Resolves(c, AsFields(parts)) /\ NodeAt(c, AsFields(parts)).k # "Null"

\* C6: field == null is true exactly when the field cannot be resolved or
\* resolves to null, field != null exactly when it resolves to a value that
\* is not null; exactly one of the two is true of every candidate.
C6_NullFilters ==
    (pc = "evaluated" /\ filter.value = NullValue /\ filter.op \in {"Eq", "Ne"}) =>
        \A parts \in FieldPaths :
            Join(parts) = filter.field =>
                /\ filter.op = "Eq" =>
                      /\ matched <=> (~Resolves(candidate, AsFields(parts)) \/ ResolvesToNull(candidate, parts))
                      /\ matched # evaluate_filter(candidate, [filter EXCEPT !.op = "Ne"])
                /\ filter.op = "Ne" =>
                      /\ matched <=> ResolvesToNonNull(candidate, parts)
                      /\ matched # evaluate_filter(candidate, [filter EXCEPT !.op = "Eq"])

\* C6 witness: a nested field whose last key is absent matched == null.
C6_Witness ==
    /\ pc = "evaluated"
    /\ filter = FilterExpr(<<"a", ".", "b">>, "Eq", NullValue)
    /\ candidate = JObject(KeyA :> JObject(<<>>))
    /\ matched

\* C6 witness: an explicit null did not match != null.
C6_WitnessNe ==
    /\ pc = "evaluated"
    /\ filter = FilterExpr(<<"a", ".", "b">>, "Ne", NullValue)
    /\ candidate = JObject(KeyA :> JObject(KeyB :> JNull))
    /\ ~matched

(***************************************************************************)
(* Claims about the filter grammar                                         *)
(***************************************************************************)

\* The positions of s at which some operator token starts.
OperatorStarts(s) ==
    {i \in 1..Len(s) : \E tok \in OperatorTokens : StartsWith(Drop(s, i - 1), tok)}

\* The first (leftmost) position of s at which an operator token starts.
LeftmostStart(s) == CHOOSE i \in OperatorStarts(s) : \A j \in OperatorStarts(s) : i <= j

\* The operator token at position i of s, a two-character token before a
\* one-character token that starts at the same position.
TokenAt(s, i) ==
    IF \E tok \in OperatorTokens : Len(tok) = 2 /\ StartsWith(Drop(s, i - 1), tok)
    THEN SubSeq(s, i, i + 1)
    ELSE <<s[i]>>

\* C11: parse_filter splits the trimmed content at the leftmost occurrence of
\* an operator token, a two-character token before a one-character one at
\* the same position: the field is the trimmed text to its left and the
\* operator recorded is the one at that position.
C11_SplitAtLeftmostOperator ==
    (pc \in {"filtered", "parsed"} /\ filter.tag = "Ok") =>
        LET t == Trim(content)
            p == LeftmostStart(t)
        IN /\ filter.val.field = Trim(Take(t, p - 1))
           /\ TokenOf(filter.val.op) = TokenAt(t, p)

(***************************************************************************)
(* parse_filter_value on its own: the value text of a filter               *)
(***************************************************************************)
MaxValueParts == 4

\* The pieces the value texts are built of.
ValuePieces == {<<"n","u","l","l">>, <<"\"">>, <<"'">>, <<"1">>, <<".">>, <<"a">>, <<" ">>, <<"-">>}

ValueTexts == {Flatten(t) : t \in StringsUpTo(ValuePieces, MaxValueParts)}

InitValue ==
    /\ pc = "value"
    /\ first = None /\ second = None /\ resolved = None
    /\ stack = None /\ ret = None
    /\ run_result = None /\ exit_status = None
    /\ serialized = None /\ reparsed = None
    /\ value_text \in ValueTexts
    /\ filter_value = None /\ part_text = None /\ parsed_segment = None
    /\ query = None /\ tree = None /\ expanded = None /\ path = None /\ result = None
    /\ content = None /\ filter = None /\ segments = None
    /\ det = None /\ fan = None /\ candidate = None /\ matched = None

\* A call of QueryPath::parse_filter_value(value_text).
ParseFilterValue ==
    /\ pc = "value"
    /\ filter_value' = parse_filter_value(value_text)
    /\ pc' = "classified"
    /\ UNCHANGED <<query, tree, expanded, path, result, content, filter, segments, det, fan, candidate, matched, value_text, part_text, parsed_segment, serialized, reparsed, run_result, exit_status, stack, ret, first, second, resolved>>

NextValue == ParseFilterValue

SpecValue == InitValue /\ [][NextValue]_vars

QuoteChars == {"\"", "'"}

\* s starts and ends with the same quote character.
Quoted(s) == Len(s) >= 1 /\ s[1] \in QuoteChars /\ s[Len(s)] = s[1]

\* C12: the trimmed value text is classified in this order: the literal null
\* gives Null; text that starts and ends with the same quote character gives
\* String of the text without its first and last character; text that parses
\* as a number gives Number; anything else gives String of the raw text.
\* Every value text falls in one of the cases.
C12_ValueClassification ==
    pc = "classified" =>
        LET s == Trim(value_text)
        IN /\ filter_value.tag = "Ok"
           /\ filter_value.val =
                IF s = <<"n","u","l","l">> THEN NullValue
                ELSE IF Quoted(s) THEN StringValue(SubSeq(s, 2, Len(s) - 1))
                ELSE IF ParseF64(s).tag = "Ok" THEN NumberValue(ParseF64(s).val)
                ELSE StringValue(s)

(***************************************************************************)
(* parse_segment on its own: one dot-separated part of a query             *)
(***************************************************************************)
MaxSegmentParts == 3

\* The pieces the segment texts are built of; the last one is a numeral
\* above usize::MAX.
SegmentPieces ==
    {<<"*">>, <<"1">>, <<"0">>, <<"+">>, <<"-">>, <<"a">>, [i \in 1..20 |-> "9"]}

SegmentTexts == {Flatten(t) : t \in StringsUpTo(SegmentPieces, MaxSegmentParts)}

InitSegment ==
    /\ pc = "segment"
    /\ first = None /\ second = None /\ resolved = None
    /\ stack = None /\ ret = None
    /\ run_result = None /\ exit_status = None
    /\ serialized = None /\ reparsed = None
    /\ part_text \in SegmentTexts
    /\ value_text = None /\ filter_value = None /\ parsed_segment = None
    /\ query = None /\ tree = None /\ expanded = None /\ path = None /\ result = None
    /\ content = None /\ filter = None /\ segments = None
    /\ det = None /\ fan = None /\ candidate = None /\ matched = None

\* A call of QueryPath::parse_segment(part_text).
ParseSegment ==
    /\ pc = "segment"
    /\ parsed_segment' = parse_segment(part_text)
    /\ pc' = "segmented"
    /\ UNCHANGED <<query, tree, expanded, path, result, content, filter, segments, det, fan, candidate, matched, value_text, filter_value, part_text, serialized, reparsed, run_result, exit_status, stack, ret, first, second, resolved>>

NextSegment == ParseSegment

SpecSegment == InitSegment /\ [][NextSegment]_vars

\* s is a non-negative integer numeral: one or more decimal digits.
IsNumeral(s) == s # <<>> /\ AllDigits(s)

\* C13: on non-empty text parse_segment never fails and yields Wildcard
\* exactly when the text is "*", Index(i) exactly when the whole text is a
\* non-negative integer numeral of value i, and Field(text) otherwise.
C13_SegmentClassification ==
    (pc = "segmented" /\ part_text # <<>>) =>
        /\ parsed_segment.tag = "Ok"
        /\ parsed_segment.val.seg =
             IF part_text = <<"*">> THEN "Wildcard"
             ELSE IF IsNumeral(part_text) THEN "Index"
             ELSE "Field"
        /\ (parsed_segment.val.seg = "Index" /\ IsNumeral(part_text)) =>
               parsed_segment.val.idx = DigitsValue(part_text)
        /\ parsed_segment.val.seg = "Field" => parsed_segment.val.name = part_text

(***************************************************************************)
(* expand_shortcut followed by parse                                       *)
(***************************************************************************)
MaxSuffixParts == 3

Aliases == {ShortcutTable[i].alias : i \in 1..Len(ShortcutTable)}

CanonOf(a) == ShortcutTable[CHOOSE i \in 1..Len(ShortcutTable) : ShortcutTable[i].alias = a].canon

\* How the queries begin: every alias, and texts that are no alias (the
\* empty text, another case, a letter more or less, an alias after a dot).
ExpandHeads ==
    Aliases \cup {<<>>, <<"F","e","e">>, <<"H","A","S","H">>, <<"f","e","e","s">>, <<"f","e">>,
                  <<"x","f","e","e">>, <<"a",".","f","e","e">>, <<"b","o","d","y">>}

\* What follows the head, piece by piece.
SuffixPieces == {<<".">>, <<"[">>, <<"]">>, <<"a">>, <<"1">>, <<".", "*">>, <<"[", "a", ">", "1", "]">>}

ExpandQueries == {h \o Flatten(t) : h \in ExpandHeads, t \in StringsUpTo(SuffixPieces, MaxSuffixParts)}

InitExpand ==
    /\ pc = "expand"
    /\ first = None /\ second = None /\ resolved = None
    /\ stack = None /\ ret = None
    /\ run_result = None /\ exit_status = None
    /\ serialized = None /\ reparsed = None
    /\ query \in ExpandQueries
    /\ value_text = None /\ filter_value = None /\ part_text = None /\ parsed_segment = None
    /\ tree = None /\ expanded = None /\ path = None /\ result = None
    /\ content = None /\ filter = None /\ segments = None
    /\ det = None /\ fan = None /\ candidate = None /\ matched = None

\* A call of expand_shortcut(query).
Expand ==
    /\ pc = "expand"
    /\ expanded' = expand_shortcut(query)
    /\ pc' = "expanded"
    /\ UNCHANGED <<query, tree, path, result, content, filter, segments, det, fan, candidate, matched, value_text, filter_value, part_text, parsed_segment, serialized, reparsed, run_result, exit_status, stack, ret, first, second, resolved>>

\* A call of QueryPath::parse on the expanded query.
ParseExpanded ==
    /\ pc = "expanded"
    /\ path' = parse(expanded)
    /\ pc' = "parsed"
    /\ UNCHANGED <<query, tree, expanded, result, content, filter, segments, det, fan, candidate, matched, value_text, filter_value, part_text, parsed_segment, serialized, reparsed, run_result, exit_status, stack, ret, first, second, resolved>>

NextExpand == Expand \/ ParseExpanded

SpecExpand == InitExpand /\ [][NextExpand]_vars

\* The positions of the delimiters '.' and '[' in q.
Delimiters(q) == {i \in 1..Len(q) : q[i] \in {".", "["}}

\* The text of q before its earliest delimiter.
BeforeDelimiter(q) ==
    Take(q, (CHOOSE i \in Delimiters(q) : \A j \in Delimiters(q) : i <= j) - 1)

\* C14: expand_shortcut(q) is the canonical prefix when q is an alias; the
\* canonical prefix followed by the unchanged rest of q, from its earliest
\* '.' or '[' on, when the text before that delimiter is an alias; and q
\* itself in every other case.
C14_ShortcutExpansion ==
    pc \in {"expanded", "parsed"} =>
        expanded =
            IF query \in Aliases THEN CanonOf(query)
            ELSE IF Delimiters(query) # {} /\ BeforeDelimiter(query) \in Aliases
            THEN CanonOf(BeforeDelimiter(query))
                    \o Drop(query, Len(BeforeDelimiter(query)))
            ELSE query

\* An alias followed by a bracketed filter has been expanded.
C14_Witness ==
    /\ pc = "expanded"
    /\ query = <<"o","u","t","p","u","t","s","[","a",">","1","]",".","*">>
    /\ expanded = <<"b","o","d","y",".","o","u","t","p","u","t","s","[","a",">","1","]",".","*">>

\* A near-alias (an alias in another case) has been left unchanged.
C14_WitnessUnchanged ==
    /\ pc = "expanded"
    /\ query = <<"F","e","e",".","a">>
    /\ expanded = query

\* Two outcomes of parse are the same segment sequence, or both are
\* InvalidQuery failures.
SameOutcome(p1, p2) ==
    \/ p1.tag = "Ok" /\ p2.tag = "Ok" /\ p1.val = p2.val
    \/ IsInvalidQuery(p1) /\ IsInvalidQuery(p2)

\* The suffix r is empty or begins with '.' or '['.
DelimitedSuffix(r) == r = <<>> \/ Head(r) \in {".", "["}

\* C15: for every alias a with canonical prefix c and every suffix r that is
\* empty or begins with '.' or '[', parse(expand_shortcut(a + r)) and
\* parse(c + r) give the same segment sequence or both fail with
\* InvalidQuery.
C15_ExpandThenParse ==
    pc = "parsed" =>
        \A a \in Aliases :
            (StartsWith(query, a) /\ DelimitedSuffix(Drop(query, Len(a)))) =>
                SameOutcome(path, parse(CanonOf(a) \o Drop(query, Len(a))))

(***************************************************************************)
(* Claims about the sentinel of the hash alias                             *)
(***************************************************************************)
HashAlias == <<"h","a","s","h">>

HashSentinel == <<"_","_","h","a","s","h","_","_">>

\* q is the alias hash followed by text that begins with '.' or '['.
HashWithSuffix(q) ==
    /\ StartsWith(q, HashAlias)
    /\ Len(q) > Len(HashAlias)
    /\ q[Len(HashAlias) + 1] \in {".", "["}

\* C16: when the expanded query is the sentinel, execute_query returns
\* Single(String(hash)) of the transaction without parsing a path or walking
\* the tree, and does not fail; a query that is the alias hash followed by
\* '.' or '[' is parsed and executed as an ordinary path.
C16_SentinelDispatch ==
    /\ (pc = "done" /\ expanded = HashSentinel) =>
           /\ result = Ok(Single(JString(tree.map[HashKey].s)))
           /\ path = None /\ det = None /\ fan = None
    /\ (pc = "done" /\ HashWithSuffix(query)) =>
           /\ path = parse(HashSentinel \o Drop(query, Len(HashAlias)))
           /\ path.tag = "Ok" => (det # None \/ fan # None)
           /\ path.tag # "Ok" => result = path

\* The query hash has been answered with the hash of the transaction.
C16_Witness ==
    /\ pc = "done"
    /\ query = HashAlias
    /\ result.tag = "Ok" /\ result.val.qr = "Single"

\* The query hash.a has gone through parsing and deterministic execution.
C16_WitnessSuffix ==
    /\ pc = "done"
    /\ query = HashAlias \o <<".", "a">>
    /\ det # None
    /\ result.tag = "Err"

(***************************************************************************)
(* Claims about failures in the executor                                   *)
(***************************************************************************)

\* The positions, in order, of the elements of the array items that the
\* segment s reaches: all of them for a Wildcard, those that satisfy the
\* filter for a Filter.
Reached(items, s) ==
    Kept(items, LAMBDA c : s.seg = "Wildcard" \/ Satisfies(c, s.expr))

\* C17: in fan-out execution, when the first Wildcard or Filter is applied to
\* an array and resolving the remaining segments fails for an element it
\* reaches, the whole query returns the error of the first such element in
\* array order and none of the results of the earlier elements.
C17_NoPartialResults ==
    (pc \in {"fan", "done"}) =>
        \A i \in 1..Len(segments) :
            LET pre == Take(segments, i - 1)
                post == Drop(segments, i)
            IN (/\ segments[i].seg \in {"Wildcard", "Filter"} /\ Plain(pre)
                /\ Resolves(tree, pre) /\ NodeAt(tree, pre).k = "Array") =>
                  LET A == NodeAt(tree, pre).items
                      reached == Reached(A, segments[i])
                      failing == {j \in 1..Len(reached) :
                                     execute_path_recursive(A[reached[j]], post).tag # "Ok"}
                  IN failing # {} =>
                       LET first_failing == CHOOSE j \in failing : \A l \in failing : j <= l
                       IN /\ fan.tag = "Err"
                          /\ fan = execute_path_recursive(A[reached[first_failing]], post)
                          /\ (pc = "done" /\ needs_recursive(segments)) => result = fan

\* Two elements fail with different errors after an element has succeeded:
\* the error is that of the first failing one.
C17_Witness ==
    /\ pc = "done"
    /\ segments = <<Wildcard, Field(KeyA), Index(0)>>
    /\ tree = JArray(<<JObject(KeyA :> JNumber(1)), JNumber(1)>>)
    /\ result = IndexOutOfBounds(0)

\* An element has yielded a result before a later element fails.
C17_WitnessPartial ==
    /\ pc = "done"
    /\ segments = <<Wildcard, Field(KeyA)>>
    /\ tree = JArray(<<JObject(KeyA :> JNumber(1)), JNumber(1)>>)
    /\ result = FieldNotFound(KeyA)

(***************************************************************************)
(* Claims about filters over absent and wrongly typed fields               *)
(***************************************************************************)

\* The field with key list parts resolves in candidate c to a value of kind k.
ResolvesToKind(c, parts, k) ==
    Resolves(c, AsFields(parts)) /\ NodeAt(c, AsFields(parts)).k = k

\* C18: a filter with a Number value and operator Gt, Lt, Gte, Lte, Eq or Ne
\* is false when the field is absent or not a number; a filter with a String
\* value and operator Eq, Ne or Contains is false when the field is absent or
\* not a string; the evaluation yields a boolean, never an error.
C18_UncertainData ==
    pc = "evaluated" =>
        /\ matched \in BOOLEAN
        /\ \A parts \in FieldPaths :
             Join(parts) = filter.field =>
                /\ (/\ filter.value.fv = "Number"
                    /\ filter.op \in {"Gt", "Lt", "Gte", "Lte", "Eq", "Ne"}
                    /\ ~ResolvesToKind(candidate, parts, "Number")) => ~matched
                /\ (/\ filter.value.fv = "String"
                    /\ filter.op \in {"Eq", "Ne", "Contains"}
                    /\ ~ResolvesToKind(candidate, parts, "String")) => ~matched

\* a != 1 has been evaluated on an element without a: it did not match.
C18_Witness ==
    /\ pc = "evaluated"
    /\ filter = FilterExpr(KeyA, "Ne", NumberValue(F64Fin(1, 0)))
    /\ candidate = JObject(<<>>)
    /\ ~matched

\* a != "x" has been evaluated on an element whose a is a number: it did not
\* match.
C18_WitnessString ==
    /\ pc = "evaluated"
    /\ filter = FilterExpr(KeyA, "Ne", StringValue(<<"x">>))
    /\ candidate = JObject(KeyA :> JNumber(1))
    /\ ~matched

\* C19: a filter whose operator is Gt, Lt, Gte or Lte with a String or Null
\* value, or Contains with a Number or Null value, is false on every
\* candidate whatever the field holds, and never an error.
C19_UnlistedCombinations ==
    (/\ pc = "evaluated"
     /\ \/ filter.op \in {"Gt", "Lt", "Gte", "Lte"} /\ filter.value.fv \in {"String", "Null"}
        \/ filter.op = "Contains" /\ filter.value.fv \in {"Number", "Null"}) =>
        matched = FALSE

\* a ~ 1 has been evaluated on an element whose a is the number 1.
C19_Witness ==
    /\ pc = "evaluated"
    /\ filter = FilterExpr(KeyA, "Contains", NumberValue(F64Fin(1, 0)))
    /\ candidate = JObject(KeyA :> JNumber(1))
    /\ matched = FALSE

\* a > "x" has been evaluated on an element whose a is a string.
C19_WitnessOrder ==
    /\ pc = "evaluated"
    /\ filter = FilterExpr(KeyA, "Gt", StringValue(<<"x">>))
    /\ candidate = JObject((KeyA :> JString(<<"x">>)) @@ (KeyB :> JNull))
    /\ matched = FALSE

\* C20: a Filter applied to a node that is not an Array fails with
\* InvalidQuery in deterministic and in fan-out execution, and a Wildcard
\* applied to such a node fails with InvalidQuery in fan-out execution; the
\* query does not end in FieldNotFound, IndexOutOfBounds or an empty result.
C20_TypeMismatch ==
    (pc \in {"fan", "done"}) =>
        \A i \in 1..Len(segments) :
            LET pre == Take(segments, i - 1)
            IN (/\ segments[i].seg \in {"Wildcard", "Filter"} /\ Plain(pre)
                /\ Resolves(tree, pre) /\ NodeAt(tree, pre).k # "Array") =>
                  /\ IsInvalidQuery(fan)
                  /\ segments[i].seg = "Filter" => IsInvalidQuery(det)
                  /\ pc = "done" => IsInvalidQuery(result)

\* A trailing Filter has been applied to the number under a.
C20_Witness ==
    /\ pc = "done"
    /\ tree = JObject(KeyA :> JNumber(1))
    /\ segments = <<Field(KeyA), Filter(FilterExpr(KeyA, "Gt", NumberValue(F64Fin(1, 0))))>>
    /\ IsInvalidQuery(det)
    /\ result = det

\* A Wildcard has been applied to an object.
C20_WitnessWildcard ==
    /\ pc = "done"
    /\ tree = JObject(KeyA :> JObject(KeyB :> JNumber(1)))
    /\ segments = <<Field(KeyA), Wildcard>>
    /\ IsInvalidQuery(fan)
    /\ result = fan

(***************************************************************************)
(* Round trip: parse, write the segments back, parse again                 *)
(***************************************************************************)
MaxRoundTripParts == 3

\* The decimal numeral of a natural number.
RECURSIVE DigitsOf(_)
DigitsOf(n) ==
    LET d == CHOOSE c \in Digits : DigitValue(c) = n % 10
    IN IF n < 10 THEN <<d>> ELSE DigitsOf(n \div 10) \o <<d>>

\* A numeral of a float: NaN, inf or -inf, or the mantissa with a decimal
\* exponent when it has one.
NumeralOf(x) ==
    IF x.cls = "nan" THEN <<"N","a","N">>
    ELSE IF x.cls = "inf" THEN (IF x.neg THEN <<"-">> ELSE <<>>) \o <<"i","n","f">>
    ELSE (IF x.mant < 0 THEN <<"-">> \o DigitsOf(0 - x.mant) ELSE DigitsOf(x.mant))
         \o (IF x.exp = 0 THEN <<>>
             ELSE IF x.exp < 0 THEN <<"e","-">> \o DigitsOf(0 - x.exp)
             ELSE <<"e">> \o DigitsOf(x.exp))

\* The text of a filter value: null, a numeral, or the string in double quotes.
ValueText(v) ==
    IF v.fv = "Null" THEN <<"n","u","l","l">>
    ELSE IF v.fv = "Number" THEN NumeralOf(v.num)
    ELSE <<"\"">> \o v.str \o <<"\"">>

\* The text of one segment: the name, the numeral, '*', or '[field op value]'.
SegmentText(s) ==
    IF s.seg = "Field" THEN s.name
    ELSE IF s.seg = "Index" THEN DigitsOf(s.idx)
    ELSE IF s.seg = "Wildcard" THEN <<"*">>
    ELSE <<"[">> \o s.expr.field \o <<" ">> \o ops[CHOOSE k \in 1..Len(ops) : ops[k].op = s.expr.op].tok
            \o <<" ">> \o ValueText(s.expr.value) \o <<"]">>

\* The segments in dot/bracket notation: a '.' before every segment that is
\* not the first and not a Filter.
RECURSIVE Serialize(_)
Serialize(segs) ==
    IF segs = <<>> THEN <<>>
    ELSE SegmentText(Head(segs))
           \o (IF Tail(segs) # <<>> /\ Head(Tail(segs)).seg # "Filter" THEN <<".">> ELSE <<>>)
           \o Serialize(Tail(segs))

\* The pieces the queries of SpecRoundTrip are built of.
RoundTripPieces ==
    { <<".">>, <<"a">>, <<"1">>, <<"*">>, <<"+","1">>, <<"[">>, <<"]">>,
      <<"[","a",">","1","]">>,
      <<"[","a",".","b"," ","=","="," ","\"","x","\"","]">>,
      <<"[","a","~","'","x"," ","'","]">>,
      <<"[","b","!","=","n","u","l","l","]">>,
      <<"[","a","<","=","-","1",".","5","]">>,
      <<"[","a","<","b",">","=","x","]">>,
      <<"[","a",">","n","a","n","]">> }

\* Queries built of the pieces, and a[content] for every content of SpecFilter.
RoundTripQueries ==
    {Flatten(t) : t \in StringsUpTo(RoundTripPieces, MaxRoundTripParts)}
        \cup {<<"a", "[">> \o c \o <<"]">> : c \in StringsUpTo(FilterAlphabet, MaxContentLen)}

InitRoundTrip ==
    /\ pc = "parse"
    /\ first = None /\ second = None /\ resolved = None
    /\ stack = None /\ ret = None
    /\ run_result = None /\ exit_status = None
    /\ query \in RoundTripQueries
    /\ serialized = None /\ reparsed = None
    /\ value_text = None /\ filter_value = None /\ part_text = None /\ parsed_segment = None
    /\ tree = None /\ expanded = None /\ path = None /\ result = None
    /\ content = None /\ filter = None /\ segments = None
    /\ det = None /\ fan = None /\ candidate = None /\ matched = None

\* The segments of an accepted query written back in dot/bracket notation.
SerializePath ==
    /\ pc = "parsed"
    /\ path.tag = "Ok"
    /\ serialized' = Serialize(path.val)
    /\ pc' = "serialized"
    /\ UNCHANGED <<query, tree, expanded, path, result, content, filter, segments, det, fan, candidate, matched, value_text, filter_value, part_text, parsed_segment, reparsed, run_result, exit_status, stack, ret, first, second, resolved>>

\* A call of QueryPath::parse on the text written back.
Reparse ==
    /\ pc = "serialized"
    /\ reparsed' = parse(serialized)
    /\ pc' = "reparsed"
    /\ UNCHANGED <<query, tree, expanded, path, result, content, filter, segments, det, fan, candidate, matched, value_text, filter_value, part_text, parsed_segment, serialized, run_result, exit_status, stack, ret, first, second, resolved>>

NextRoundTrip == Parse \/ SerializePath \/ Reparse

SpecRoundTrip == InitRoundTrip /\ [][NextRoundTrip]_vars

\* C21: for every string that parse accepts, the segments written back in
\* dot/bracket notation are accepted by parse and parse to the same segment
\* sequence.
C21_RoundTrip ==
    pc = "reparsed" => (reparsed.tag = "Ok" /\ reparsed.val = path.val)

\* A query with an unquoted string value in a filter between two fields has
\* gone round: the text written back differs from the query.
C21_Witness ==
    /\ pc = "reparsed"
    /\ query = <<"a","[","a","<","b",">","=","x","]","a">>
    /\ serialized # query
    /\ reparsed.tag = "Ok"

(***************************************************************************)
(* src/error.rs, src/main.rs and run_transaction_mode of src/lib.rs        *)
(***************************************************************************)
NoInput == [tag |-> "Err", kind |-> "NoInput"]

FileNotFound == [tag |-> "Err", kind |-> "FileNotFound"]

IoError == [tag |-> "Err", kind |-> "IoError"]

InvalidHex == [tag |-> "Err", kind |-> "InvalidHex"]

DecodeFailed == [tag |-> "Err", kind |-> "DecodeFailed"]

FormatError == [tag |-> "Err", kind |-> "FormatError"]

UnsupportedEra == [tag |-> "Err", kind |-> "UnsupportedEra"]

NetworkError == [tag |-> "Err", kind |-> "NetworkError"]

\* exit_code with FieldNotFound grouped with the I/O errors, next to
\* FileNotFound.
exit_code_NotFoundAsIo(e) ==
    CASE e.kind \in {"DecodeFailed", "UnsupportedEra"} -> 1
      [] e.kind = "InvalidHex" -> 2
      [] e.kind \in {"NoInput", "FileNotFound", "IoError", "FieldNotFound"} -> 3
      [] e.kind \in {"InvalidQuery", "IndexOutOfBounds"} -> 4
      [] e.kind = "FormatError" -> 5
      [] e.kind = "NetworkError" -> 6

\* Error::exit_code
exit_code(e) ==
    CASE e.kind \in {"DecodeFailed", "UnsupportedEra"} -> 1
      [] e.kind = "InvalidHex" -> 2
      [] e.kind \in {"NoInput", "FileNotFound", "IoError"} -> 3
      [] e.kind \in {"InvalidQuery", "FieldNotFound", "IndexOutOfBounds"} -> 4
      [] e.kind = "FormatError" -> 5
      [] e.kind = "NetworkError" -> 6

\* main: ExitCode::SUCCESS for Ok(()), ExitCode::from(e.exit_code() as u8) for
\* an error; a panic ends the process before main returns, with the status
\* 101 of the Rust runtime.
main_status(r) ==
    IF r.tag = "Ok" THEN 0
    ELSE IF r.tag = "Err" THEN exit_code(r) % 256
    ELSE 101

\* What read_input returns: the bytes, or one of its errors.
ReadOutcomes == {Ok("bytes"), NoInput, FileNotFound, IoError, InvalidHex}

\* What decode_transaction returns: the transaction, or DecodeFailed.
DecodeOutcomes == {Ok("tx"), DecodeFailed}

\* What format_output returns: the text, or one of its errors.
FormatOutcomes == {Ok("output"), FormatError, DecodeFailed}

InitRun ==
    /\ pc = "read"
    /\ first = None /\ second = None /\ resolved = None
    /\ stack = None /\ ret = None
    /\ query \in Queries
    /\ tree \in TxTrees
    /\ run_result = None /\ exit_status = None
    /\ serialized = None /\ reparsed = None
    /\ value_text = None /\ filter_value = None /\ part_text = None /\ parsed_segment = None
    /\ expanded = None /\ path = None /\ result = None
    /\ content = None /\ filter = None /\ segments = None
    /\ det = None /\ fan = None /\ candidate = None /\ matched = None

\* let bytes = read_input(&input_spec)?;
ReadInput ==
    /\ pc = "read"
    /\ \E r \in ReadOutcomes :
          IF r.tag = "Ok" THEN pc' = "decode" /\ run_result' = run_result
          ELSE pc' = "ran" /\ run_result' = r
    /\ UNCHANGED <<query, tree, expanded, path, result, content, filter, segments, det, fan, candidate, matched, value_text, filter_value, part_text, parsed_segment, serialized, reparsed, exit_status, stack, ret, first, second, resolved>>

\* let tx = decode_transaction(&bytes)?;
DecodeTransaction ==
    /\ pc = "decode"
    /\ \E r \in DecodeOutcomes :
          IF r.tag = "Ok" THEN pc' = "mode" /\ run_result' = run_result
          ELSE pc' = "ran" /\ run_result' = r
    /\ UNCHANGED <<query, tree, expanded, path, result, content, filter, segments, det, fan, candidate, matched, value_text, filter_value, part_text, parsed_segment, serialized, reparsed, exit_status, stack, ret, first, second, resolved>>

\* if args.check { return Ok(()); }
CheckMode ==
    /\ pc = "mode"
    /\ run_result' = Ok("unit")
    /\ pc' = "ran"
    /\ UNCHANGED <<query, tree, expanded, path, result, content, filter, segments, det, fan, candidate, matched, value_text, filter_value, part_text, parsed_segment, serialized, reparsed, exit_status, stack, ret, first, second, resolved>>

\* Without --check: the call of execute_query(&tx, query).
QueryMode ==
    /\ pc = "mode"
    /\ pc' = "start"
    /\ UNCHANGED <<query, tree, expanded, path, result, content, filter, segments, det, fan, candidate, matched, value_text, filter_value, part_text, parsed_segment, serialized, reparsed, run_result, exit_status, stack, ret, first, second, resolved>>

\* let result = execute_query(&tx, query)?; let output = format_output(..)?;
\* println!(..); Ok(())
FormatOutput ==
    /\ pc = "done"
    /\ IF result.tag = "Ok"
       THEN \E r \in FormatOutcomes : run_result' = IF r.tag = "Ok" THEN Ok("unit") ELSE r
       ELSE run_result' = result
    /\ pc' = "ran"
    /\ UNCHANGED <<query, tree, expanded, path, result, content, filter, segments, det, fan, candidate, matched, value_text, filter_value, part_text, parsed_segment, serialized, reparsed, exit_status, stack, ret, first, second, resolved>>

\* main: the exit status of the process.
Main ==
    /\ pc = "ran"
    /\ exit_status' = main_status(run_result)
    /\ pc' = "exited"
    /\ UNCHANGED <<query, tree, expanded, path, result, content, filter, segments, det, fan, candidate, matched, value_text, filter_value, part_text, parsed_segment, serialized, reparsed, run_result, stack, ret, first, second, resolved>>

NextRun ==
    \/ ReadInput
    \/ DecodeTransaction
    \/ CheckMode
    \/ QueryMode
    \/ ExpandShortcut
    \/ HashQuery
    \/ ParsePath
    \/ ReturnFullTransaction
    \/ ExecuteRecursive
    \/ ExecuteSingle
    \/ FormatOutput
    \/ Main

SpecRun == InitRun /\ [][NextRun]_vars

\* The exit code the claim gives for each kind of error.
ExitCodeTable ==
    [k \in {"InvalidQuery", "FieldNotFound", "IndexOutOfBounds"} |-> 4]
      @@ [k \in {"DecodeFailed", "UnsupportedEra"} |-> 1]
      @@ [k \in {"InvalidHex"} |-> 2]
      @@ [k \in {"NoInput", "FileNotFound", "IoError"} |-> 3]
      @@ [k \in {"FormatError"} |-> 5]
      @@ [k \in {"NetworkError"} |-> 6]

\* C22: every error a run returns exits with the non-zero code of its kind
\* (query errors 4, DecodeFailed and UnsupportedEra 1, InvalidHex 2, NoInput,
\* FileNotFound and IoError 3, FormatError 5, NetworkError 6), and only a
\* successful run exits with 0.
C22_ExitCodes ==
    /\ \A e \in {UnsupportedEra, NetworkError} : exit_code(e) = ExitCodeTable[e.kind]
    /\ pc = "exited" =>
          /\ run_result.tag = "Err" => exit_status = ExitCodeTable[run_result.kind]
          /\ exit_status = 0 <=> run_result.tag = "Ok"

\* A run whose query names an absent field has exited with 4.
C22_Witness ==
    /\ pc = "exited"
    /\ run_result.tag = "Err" /\ run_result.kind = "FieldNotFound"
    /\ exit_status = 4

\* A run has exited with 0.
C22_WitnessSuccess ==
    /\ pc = "exited"
    /\ result.tag = "Ok" /\ run_result.tag = "Ok"
    /\ exit_status = 0

(***************************************************************************)
(* Claims about the empty query and the whole-tree result                  *)
(***************************************************************************)

\* C23: parse of the empty string succeeds with the empty Path, and
\* execute_query on the empty query returns the whole tree tagged
\* FullTransaction, through neither execution mode.
C23_EmptyQuery ==
    /\ (pc \in {"parsed", "done"} /\ query = <<>>) => path = Ok(<<>>)
    /\ (pc = "done" /\ query = <<>>) =>
           /\ result = Ok(FullTransaction(tree))
           /\ det = None /\ fan = None

\* The empty query has been answered.
C23_Witness ==
    /\ pc = "done"
    /\ query = <<>>
    /\ result.tag = "Ok" /\ result.val.qr = "FullTransaction"

(***************************************************************************)
(* execute_path_recursive call by call: the stack of its activations       *)
(***************************************************************************)
MaxRecSegs == 3

\* Deepest nesting of arrays in the trees of SpecRec, above MaxRecSegs.
MaxTreeDepth == 4

\* Arrays of two elements nested d deep over an object.
RECURSIVE Nest(_)
Nest(d) ==
    IF d = 0 THEN JObject(KeyA :> JNumber(2))
    ELSE JArray(<<Nest(d - 1), Nest(d - 1)>>)

RecTrees ==
    {Nest(d) : d \in 0..MaxTreeDepth}
        \cup {JObject(KeyA :> Nest(d)) : d \in 0..MaxTreeDepth}
        \cup {JArray(<<>>), JNumber(1),
              JArray(<<JObject(KeyA :> JNumber(2)), JObject(KeyA :> JNumber(1)), JNumber(1)>>)}

RecSegments ==
    {Field(KeyA), Index(0), Index(1), Wildcard, Filter(FilterExpr(KeyA, "Gt", NumberValue(F64Fin(1, 0))))}

\* An activation of execute_path_recursive(value, segs): at its entry
\* ("enter"), in the for loop of the Wildcard or Filter arm with the items
\* still to visit and the results so far ("loop"), or waiting for the call
\* it made, in the loop ("wait") or as its last expression ("tail").
Frame(v, ss) == [value |-> v, segs |-> ss, at |-> "enter", items |-> <<>>, results |-> <<>>]

InitRec ==
    /\ pc = "rec"
    /\ first = None /\ second = None /\ resolved = None
    /\ tree \in RecTrees
    /\ segments \in StringsUpTo(RecSegments, MaxRecSegs)
    /\ stack = <<Frame(tree, segments)>>
    /\ ret = None
    /\ fan = None
    /\ run_result = None /\ exit_status = None
    /\ serialized = None /\ reparsed = None
    /\ value_text = None /\ filter_value = None /\ part_text = None /\ parsed_segment = None
    /\ query = None /\ expanded = None /\ path = None /\ result = None
    /\ content = None /\ filter = None
    /\ det = None /\ candidate = None /\ matched = None

Top == stack[Len(stack)]

\* The stack with its top activation replaced by f.
WithTop(f) == [stack EXCEPT ![Len(stack)] = f]

\* The top activation returns r to its caller.
Return(r) ==
    /\ stack' = Take(stack, Len(stack) - 1)
    /\ ret' = r
    /\ IF Len(stack) = 1 THEN pc' = "returned" /\ fan' = r
       ELSE pc' = pc /\ fan' = fan

\* Call that hands the callee the caller's own segments: no segment is
\* consumed.
Call_KeepSegment(v, rest, w) ==
    /\ stack' = Append(WithTop([Top EXCEPT !.at = w]), Frame(v, Top.segs))
    /\ ret' = None
    /\ pc' = pc /\ fan' = fan

\* The top activation calls execute_path_recursive(v, rest) and waits at w.
Call(v, rest, w) ==
    /\ stack' = Append(WithTop([Top EXCEPT !.at = w]), Frame(v, rest))
    /\ ret' = None
    /\ pc' = pc /\ fan' = fan

\* The entry of an activation: the match on the first segment.
Enter ==
    /\ pc = "rec" /\ Top.at = "enter"
    /\ LET value == Top.value
           segs == Top.segs
       IN IF segs = <<>> THEN Return(Ok(<<QueryValueFrom(value)>>))
          ELSE LET current_segment == Head(segs)
                   rest == Tail(segs)
               IN CASE current_segment.seg = "Field" ->
                         IF GetKey(value, current_segment.name).tag = "None"
                         THEN Return(FieldNotFound(current_segment.name))
                         ELSE Call(GetKey(value, current_segment.name).val, rest, "tail")
                    [] current_segment.seg = "Index" ->
                         IF GetIndex(value, current_segment.idx).tag = "None"
                         THEN Return(IndexOutOfBounds(current_segment.idx))
                         ELSE Call(GetIndex(value, current_segment.idx).val, rest, "tail")
                    [] current_segment.seg = "Wildcard" ->
                         IF as_array(value).tag = "None"
                         THEN Return(InvalidQuery("Wildcard on non-array"))
                         ELSE /\ stack' = WithTop([Top EXCEPT !.at = "loop", !.items = as_array(value).val])
                              /\ UNCHANGED <<ret, pc, fan>>
                    [] current_segment.seg = "Filter" ->
                         IF as_array(value).tag = "None"
                         THEN Return(InvalidQuery("Filter on non-array"))
                         ELSE /\ stack' = WithTop([Top EXCEPT !.at = "loop", !.items = as_array(value).val])
                              /\ UNCHANGED <<ret, pc, fan>>
    /\ UNCHANGED <<query, tree, expanded, path, result, content, filter, segments, det, candidate, matched, value_text, filter_value, part_text, parsed_segment, serialized, reparsed, run_result, exit_status, first, second, resolved>>

\* One turn of the for loop: the end of the items, an item the filter
\* rejects, or the call on an item.
Loop ==
    /\ pc = "rec" /\ Top.at = "loop"
    /\ IF Top.items = <<>> THEN Return(Ok(Top.results))
       ELSE IF Head(Top.segs).seg = "Filter" /\ ~evaluate_filter(Head(Top.items), Head(Top.segs).expr)
         THEN /\ stack' = WithTop([Top EXCEPT !.items = Tail(Top.items)])
              /\ UNCHANGED <<ret, pc, fan>>
       ELSE Call(Head(Top.items), Tail(Top.segs), "wait")
    /\ UNCHANGED <<query, tree, expanded, path, result, content, filter, segments, det, candidate, matched, value_text, filter_value, part_text, parsed_segment, serialized, reparsed, run_result, exit_status, first, second, resolved>>

\* The call made by the top activation has returned: a last expression
\* passes the value on; in the loop ? passes an error on and extend keeps
\* the results.
Resume ==
    /\ pc = "rec" /\ Top.at \in {"wait", "tail"}
    /\ IF Top.at = "tail" \/ extend_results(Top.results, ret).tag # "Ok"
       THEN Return(ret)
       ELSE /\ stack' = WithTop([Top EXCEPT !.at = "loop", !.items = Tail(Top.items),
                                            !.results = extend_results(Top.results, ret).val])
            /\ ret' = None
            /\ UNCHANGED <<pc, fan>>
    /\ UNCHANGED <<query, tree, expanded, path, result, content, filter, segments, det, candidate, matched, value_text, filter_value, part_text, parsed_segment, serialized, reparsed, run_result, exit_status, first, second, resolved>>

NextRec == Enter \/ Loop \/ Resume

SpecRec == InitRec /\ [][NextRec]_vars /\ WF_vars(NextRec)

\* Every activation but the first has a segment list one shorter than its
\* caller's, and there are at most as many activations as segments plus one.
DepthBounded ==
    /\ Len(stack) <= Len(segments) + 1
    /\ \A i \in 2..Len(stack) : Len(stack[i].segs) = Len(stack[i - 1].segs) - 1

\* C24: execute_path_recursive terminates on every tree and path; each
\* recursive call is made on a segment list exactly one shorter than its
\* caller's, so the depth of nested calls never exceeds the number of
\* segments plus one, whatever the depth of the tree.
C24_FanOutTerminates ==
    /\ [](pc \in {"rec", "returned"} => DepthBounded)
    /\ <>(pc = "returned")

\* Three wildcards over arrays nested four deep have returned the eight
\* arrays of the third level.
C24_Witness ==
    /\ pc = "returned"
    /\ tree = Nest(MaxTreeDepth)
    /\ segments = <<Wildcard, Wildcard, Wildcard>>
    /\ fan.tag = "Ok" /\ Len(fan.val) = 8

\* The deepest nesting of calls: one activation more than segments.
C24_WitnessDepth ==
    /\ pc = "rec"
    /\ Len(segments) = MaxRecSegs
    /\ Len(stack) = Len(segments) + 1

\* C25: the field of a filter is resolved in the candidate by successive
\* Object key lookups on its parts split at '.'; when a part is looked up in
\* a node that is not an Object (an Array, even for a numeral part, or a
\* scalar) or names an absent key, the field has no value and the filter
\* behaves as for an absent field: only == null is true.
C25_FieldResolution ==
    pc = "evaluated" =>
        \A parts \in FieldPaths :
            Join(parts) = filter.field =>
                /\ get_nested_field(candidate, filter.field) =
                      IF Resolves(candidate, AsFields(parts))
                      THEN Some(NodeAt(candidate, AsFields(parts)))
                      ELSE None
                /\ ~Resolves(candidate, AsFields(parts)) =>
                      (matched <=> (filter.op = "Eq" /\ filter.value = NullValue))

\* a.0 == 1 has been evaluated on an element whose a is the array [1]: the
\* numeral is a key, not a position, and the filter is false.
C25_Witness ==
    /\ pc = "evaluated"
    /\ filter = FilterExpr(<<"a", ".", "0">>, "Eq", NumberValue(F64Fin(1, 0)))
    /\ candidate = JObject(KeyA :> JArray(<<JNumber(1)>>))
    /\ ~matched

\* 0 == 1 has been evaluated on an object with the key 0 and is true.
C25_WitnessKey ==
    /\ pc = "evaluated"
    /\ filter = FilterExpr(Key0, "Eq", NumberValue(F64Fin(1, 0)))
    /\ candidate = JObject(Key0 :> JNumber(1))
    /\ matched

\* C26: on a path made only of Field and Index segments the two modes agree:
\* execute_path_recursive returns the one-element list [v] exactly when
\* execute_path returns v, and otherwise both fail with the same error, the
\* same kind and the same name or index.
C26_ModesAgree ==
    (pc \in {"fan", "done"} /\ Plain(segments)) =>
        /\ det.tag = "Ok" => fan = Ok(<<det.val>>)
        /\ det.tag # "Ok" => fan = det
        /\ fan.tag = "Ok" => (Len(fan.val) = 1 /\ det = Ok(fan.val[1]))

\* Both modes have returned the value under a.0.a of a tree where it exists.
C26_Witness ==
    /\ pc = "fan"
    /\ segments = <<Field(KeyA), Index(0), Field(KeyA)>>
    /\ det.tag = "Ok"
    /\ fan = Ok(<<det.val>>)

\* Both modes have failed with IndexOutOfBounds(1) after resolving a.
C26_WitnessError ==
    /\ pc = "fan"
    /\ segments = <<Field(KeyA), Index(1)>>
    /\ tree.k = "Object"
    /\ det = IndexOutOfBounds(1)
    /\ fan = IndexOutOfBounds(1)

\* The error execute_path raises on a Wildcard segment.
UnexpectedWildcard == InvalidQuery("Unexpected wildcard in non-wildcard path")

\* C27: execute_query never calls execute_path on a path containing a
\* Wildcard, and never returns the InvalidQuery raised for a wildcard met in
\* deterministic mode, for every query and every tree.
C27_WildcardNeverDeterministic ==
    /\ (det # None /\ path # None /\ path.tag = "Ok") => ~has_wildcard(path.val)
    /\ det # UnexpectedWildcard
    /\ result # UnexpectedWildcard

\* A query whose path holds a Wildcard has been executed in fan-out mode and
\* execute_path has not been called.
C27_Witness ==
    /\ pc = "done"
    /\ path # None /\ path.tag = "Ok" /\ has_wildcard(path.val)
    /\ fan # None /\ fan.tag = "Ok"
    /\ det = None
    /\ result = Ok(Multiple(fan.val))

\* A query without Wildcard has been executed by execute_path.
C27_WitnessDeterministic ==
    /\ pc = "done"
    /\ path # None /\ path.tag = "Ok" /\ has_filter(path.val)
    /\ det # None /\ det.tag = "Ok"
    /\ fan = None

(***************************************************************************)
(* Args::resolve and Args::looks_like_query (cli.rs)                       *)
(***************************************************************************)
\* InputSpec
Stdin == [input |-> "Stdin"]

File(p) == [input |-> "File", path |-> p]

Hex(h) == [input |-> "Hex", hex |-> h]

\* char::is_ascii_hexdigit
is_ascii_hexdigit(c) ==
    c \in {"0","1","2","3","4","5","6","7","8","9",
           "a","b","c","d","e","f","A","B","C","D","E","F"}

\* s.strip_prefix("0x").unwrap_or(s)
hex_candidate(s) == IF StartsWith(s, <<"0","x">>) THEN Drop(s, 2) ELSE s

\* InputSpec::detect
detect(s) ==
    IF /\ Len(hex_candidate(s)) >= 8
       /\ \A i \in 1..Len(hex_candidate(s)) : is_ascii_hexdigit(hex_candidate(s)[i])
       /\ StartsWith(hex_candidate(s), <<"8","4">>)
    THEN Hex(hex_candidate(s))
    ELSE File(s)

\* The shortcuts array of looks_like_query.
shortcuts ==
    << <<"f","e","e">>,
       <<"i","n","p","u","t","s">>,
       <<"o","u","t","p","u","t","s">>,
       <<"m","e","t","a","d","a","t","a">>,
       <<"w","i","t","n","e","s","s","e","s">>,
       <<"h","a","s","h">>,
       <<"t","t","l">>,
       <<"m","i","n","t">>,
       <<"c","e","r","t","s">>,
       <<"w","i","t","h","d","r","a","w","a","l","s">>,
       <<"c","o","l","l","a","t","e","r","a","l">> >>

\* The file_extensions array of looks_like_query.
file_extensions ==
    << <<".","c","b","o","r">>,
       <<".","b","i","n">>,
       <<".","h","e","x">>,
       <<".","r","a","w">>,
       <<".","t","x">>,
       <<".","j","s","o","n">> >>

\* Args::looks_like_query
looks_like_query(s) ==
    IF \E i \in 1..Len(shortcuts) : shortcuts[i] = s THEN TRUE
    ELSE IF \E i \in 1..Len(file_extensions) : EndsWith(s, file_extensions[i]) THEN FALSE
    ELSE IF Contains(s, <<".">>) \/ Contains(s, <<"*">>) THEN TRUE
    ELSE IF \/ StartsWith(s, <<"b","o","d","y">>)
            \/ StartsWith(s, <<"a","u","x","i","l","i","a","r","y">>)
            \/ StartsWith(s, <<"w","i","t","n","e","s","s">>) THEN TRUE
    ELSE FALSE

\* Args::resolve on the two positional arguments: the pair (query, input).
resolve(a, b) ==
    IF a = None /\ b = None THEN [query |-> None, input |-> Stdin]
    ELSE IF a # None /\ b = None
      THEN (IF looks_like_query(a.val)
            THEN [query |-> Some(a.val), input |-> Stdin]
            ELSE [query |-> None, input |-> detect(a.val)])
    ELSE IF a # None /\ b # None
      THEN [query |-> Some(a.val), input |-> detect(b.val)]
    ELSE Panic

\* The first positional argument: every alias of the shortcut table, file
\* names, hex texts, paths, and texts that are none of these.
FirstArgs ==
    Aliases \cup
    { <<"t","x",".","c","b","o","r">>,
      <<"f","e","e",".","j","s","o","n">>,
      <<"b","o","d","y">>,
      <<"b","o","d","y",".","f","e","e">>,
      <<"o","u","t","p","u","t","s",".","*",".","a">>,
      <<"a","*">>,
      <<"w","i","t","n","e","s","s","_","s","e","t">>,
      <<"a","u","x","i","l","i","a","r","y","_","d","a","t","a">>,
      <<"t","x">>,
      <<"F","e","e">>,
      <<"f","e","e","s">>,
      <<"8","4","a","4","0","0","0","0","8","1">>,
      <<"0","x","8","4","a","4","0","0","a","b">>,
      <<"8","4","a","4","0","0">>,
      <<"8","4","a","4","0","0","0","g">>,
      <<"a",".","b","i","n">>,
      <<"x",".","t","x">>,
      <<".">> }

\* The second positional argument.
SecondArgs ==
    { <<"t","x",".","c","b","o","r">>,
      <<"8","4","a","4","0","0","0","0","8","1">>,
      <<"0","x","8","4","a","4","0","0","a","b">>,
      <<"f","e","e">> }

\* The arguments as clap fills them: the second positional only after the
\* first.
InitResolve ==
    /\ pc = "args"
    /\ first \in {None} \cup {Some(a) : a \in FirstArgs}
    /\ second \in {None} \cup {Some(b) : b \in SecondArgs}
    /\ first = None => second = None
    /\ resolved = None
    /\ stack = None /\ ret = None
    /\ run_result = None /\ exit_status = None
    /\ serialized = None /\ reparsed = None
    /\ value_text = None /\ filter_value = None /\ part_text = None /\ parsed_segment = None
    /\ query = None /\ tree = None /\ expanded = None /\ path = None /\ result = None
    /\ content = None /\ filter = None /\ segments = None
    /\ det = None /\ fan = None /\ candidate = None /\ matched = None

\* let (query, input_spec) = args.resolve();
Resolve ==
    /\ pc = "args"
    /\ resolved' = resolve(first, second)
    /\ pc' = "resolved"
    /\ UNCHANGED <<query, tree, expanded, path, result, content, filter, segments, det, fan, candidate, matched, value_text, filter_value, part_text, parsed_segment, serialized, reparsed, run_result, exit_status, stack, ret, first, second>>

NextResolve == Resolve

SpecResolve == InitResolve /\ [][NextResolve]_vars

\* C28: every alias of the shortcut table is classified as a query by
\* looks_like_query, so a single positional argument equal to an alias is
\* resolved as (query, stdin) and never as an input file path.
C28_AliasesAreQueries ==
    (pc = "resolved" /\ first # None /\ first.val \in Aliases) =>
        /\ looks_like_query(first.val)
        /\ second = None => resolved = [query |-> Some(first.val), input |-> Stdin]

\* r is the whole-tree result.
IsFullTransaction(r) == r # None /\ r.tag = "Ok" /\ r.val.qr = "FullTransaction"

\* C29: parse returns the empty Path exactly when its input is the empty
\* string, expand_shortcut returns the empty string only for the empty
\* query, and execute_query returns FullTransaction exactly when the query
\* is the empty string.
C29_FullTransactionOnlyForEmpty ==
    /\ pc # "start" => (expanded = <<>> <=> query = <<>>)
    /\ path # None => (path = Ok(<<>>) <=> expanded = <<>>)
    /\ pc = "done" => (IsFullTransaction(result) <=> query = <<>>)
    /\ IsFullTransaction(result) => result = Ok(FullTransaction(tree))

\* The empty query has returned the whole tree.
C29_Witness ==
    /\ pc = "done"
    /\ query = <<>>
    /\ path = Ok(<<>>)
    /\ result = Ok(FullTransaction(tree))

\* The query "." has been rejected, and the query "fee." has returned a
\* single value: neither is the whole tree.
C29_WitnessDot ==
    /\ pc = "done"
    /\ \/ query = <<".">> /\ result.tag = "Err" /\ result.kind = "InvalidQuery"
       \/ query = <<"f","e","e",".">> /\ result.tag = "Ok" /\ result.val.qr = "Single"

\* The results of resolving post from each of the elements of items at the
\* positions ps, in order, when none of them fails.
RECURSIVE SurvivorResults(_, _, _)
SurvivorResults(items, ps, post) ==
    IF ps = <<>> THEN <<>>
    ELSE execute_path_recursive(items[Head(ps)], post).val
         \o SurvivorResults(items, Tail(ps), post)

\* C30: when the first Wildcard is applied to an empty array, or the first
\* Filter is not the last segment and no element satisfies it, fan-out
\* execution returns the empty list with no error whatever segments follow;
\* the following segments are resolved only from the elements the Wildcard or
\* Filter reaches, so an element it does not reach never causes an error.
C30_ErrorsDependOnSurvivors ==
    (pc \in {"fan", "done"}) =>
        \A i \in 1..Len(segments) :
            LET pre == Take(segments, i - 1)
                post == Drop(segments, i)
            IN (/\ segments[i].seg \in {"Wildcard", "Filter"} /\ Plain(pre)
                /\ Resolves(tree, pre) /\ NodeAt(tree, pre).k = "Array") =>
                  LET A == NodeAt(tree, pre).items
                      reached == Reached(A, segments[i])
                  IN /\ (reached = <<>> /\ (segments[i].seg = "Wildcard" \/ post # <<>>)) =>
                           /\ fan = Ok(<<>>)
                           /\ pc = "done" => result = Ok(Multiple(<<>>))
                     /\ (\A j \in 1..Len(reached) :
                            execute_path_recursive(A[reached[j]], post).tag = "Ok") =>
                           fan = Ok(SurvivorResults(A, reached, post))

\* A Wildcard on an empty array followed by a field and a further Wildcard
\* has returned the empty list.
C30_Witness ==
    /\ pc = "done"
    /\ tree = JObject(KeyA :> JArray(<<>>))
    /\ segments = <<Field(KeyA), Wildcard, Field(KeyB)>>
    /\ result = Ok(Multiple(<<>>))

\* A Filter that no element of a non-empty array satisfies, followed by a
\* field absent from every element and an index, has returned the empty list.
C30_WitnessFilter ==
    /\ pc = "done"
    /\ tree = JArray(<<JNumber(1), JObject(KeyA :> JNumber(1))>>)
    /\ segments = <<Filter(FilterExpr(KeyA, "Gt", NumberValue(F64Fin(1, 0)))), Field(KeyB), Index(1)>>
    /\ fan = Ok(<<>>)
    /\ result = Ok(Multiple(<<>>))

\* An element the Filter does not reach would fail on the following field;
\* the one it reaches succeeds and is the only result.
C30_WitnessSurvivor ==
    /\ pc = "done"
    /\ tree = JArray(<<JNumber(1), JObject((KeyA :> JNumber(2)) @@ (KeyB :> JNull))>>)
    /\ segments = <<Filter(FilterExpr(KeyA, "Gt", NumberValue(F64Fin(1, 0)))), Field(KeyB)>>
    /\ result = Ok(Multiple(<<QueryValueFrom(JNull)>>))

====
